---- MODULE Spec2Model ----
(***************************************************************************)
(* A model of the request-execution pipeline of cisco-meraki-mcp:          *)
(*   - SettingsManager   (auto-approval policy, glob matching)             *)
(*   - response bounding (optimizeResponse, createSummaryResponse,         *)
(*                        BaseTool.applyResponseOptimization)              *)
(*   - BaseTool.execute  (defaults, coercion, transform, validation,       *)
(*                        dispatch)                                        *)
(*   - organization_security_events.customExecutor (composite rollup)      *)
(*   - MerakiHttpClient  (PQueue admission, axios-rate-limit, retries)     *)
(* Each part has its own specification over its own variables; the        *)
(* variables of the other parts are held at their initial value.           *)
(*                                                                         *)
(* Strings that the code inspects character by character (tool names,     *)
(* glob patterns, payload strings) are sequences of one-character strings. *)
(***************************************************************************)
EXTENDS Integers, Sequences, FiniteSets, Bags, TLC

VARIABLES
    \* ---- SettingsManager ----
    settings,      \* this.settings.autoApprove (+ logging is not modelled)
    polOut,        \* the last policy query and its answer
    \* ---- response bounding ----
    bndOut,        \* the last bounding call: its input, options and result
    fmtOut,        \* the formatToolResponse call made on that result
    \* ---- composite aggregation ----
    cmpPc, networks, cmpParams, childResp, cmpNext, allSecurityEvents,
    cmpMerged, cmpResult,
    \* ---- BaseTool.execute ----
    exePc, exeTool, exeParams, exeHttp, exeOutcome,
    exeDelivered,  \* what the call-tool handler answers to the caller
    apiKey,        \* config.apiKey of the MerakiHttpClient
    \* ---- MerakiHttpClient ----
    now, submitted, queued, live, axQueue, settled, delayed, limited,
    intervalCount, intervalEnd, timeslotRequests, timeslotEnd, sent

polVars == <<settings, polOut>>
bndVars == <<bndOut, fmtOut>>
cmpVars == <<cmpPc, networks, cmpParams, childResp, cmpNext, allSecurityEvents,
             cmpMerged, cmpResult>>
exeVars == <<exePc, exeTool, exeParams, exeHttp, exeOutcome, exeDelivered,
             apiKey>>
dspVars == <<now, submitted, queued, live, axQueue, settled, delayed, limited,
             intervalCount, intervalEnd, timeslotRequests, timeslotEnd,
             sent>>
vars == <<polVars, bndVars, cmpVars, exeVars, dspVars>>

\* Each part leaves the variables of the other parts alone.
PolFrame == UNCHANGED <<bndVars, cmpVars, exeVars, dspVars>>
BndFrame == UNCHANGED <<polVars, cmpVars, exeVars, dspVars>>
CmpFrame == UNCHANGED <<polVars, bndVars, exeVars, dspVars>>
ExeFrame == UNCHANGED <<polVars, bndVars, cmpVars, dspVars>>
\* BaseTool.execute runs inside the call-tool handler, which answers after it.
ToolFrame == ExeFrame /\ UNCHANGED <<exeDelivered, apiKey>>
DspFrame == UNCHANGED <<polVars, bndVars, cmpVars, exeVars>>

(***************************************************************************)
(* String helpers (JavaScript String.prototype and Array.prototype)        *)
(***************************************************************************)
Includes(arr, x) == \E i \in DOMAIN arr : arr[i] = x

StartsWith(s, p) == Len(p) <= Len(s) /\ SubSeq(s, 1, Len(p)) = p

EndsWith(s, p) == Len(p) <= Len(s) /\ SubSeq(s, Len(s) - Len(p) + 1, Len(s)) = p

StrIncludes(s, p) ==
    \E i \in 0..(Len(s) - Len(p)) : SubSeq(s, i + 1, i + Len(p)) = p

LowerOf(c) ==
    CASE c = "G" -> "g" [] c = "E" -> "e" [] c = "T" -> "t" [] c = "L" -> "l"
      [] c = "I" -> "i" [] c = "S" -> "s" [] c = "N" -> "n" [] c = "D" -> "d"
      [] OTHER -> c

ToLowerCase(s) == [i \in DOMAIN s |-> LowerOf(s[i])]

(***************************************************************************)
(* Tool names of the registry and glob patterns used in the settings       *)
(***************************************************************************)
network_delete == <<"n", "e", "t", "w", "o", "r", "k", "_", "d", "e", "l", "e", "t", "e">>
organization_network_create == <<"o", "r", "g", "a", "n", "i", "z", "a", "t", "i", "o", "n", "_", "n", "e", "t", "w", "o", "r", "k", "_", "c", "r", "e", "a", "t", "e">>
network_get == <<"n", "e", "t", "w", "o", "r", "k", "_", "g", "e", "t">>
device_reboot == <<"d", "e", "v", "i", "c", "e", "_", "r", "e", "b", "o", "o", "t">>
network_clients_list == <<"n", "e", "t", "w", "o", "r", "k", "_", "c", "l", "i", "e", "n", "t", "s", "_", "l", "i", "s", "t">>
organization_security_events == <<"o", "r", "g", "a", "n", "i", "z", "a", "t", "i", "o", "n", "_", "s", "e", "c", "u", "r", "i", "t", "y", "_", "e", "v", "e", "n", "t", "s">>

network_update == <<"n", "e", "t", "w", "o", "r", "k", "_", "u", "p", "d", "a", "t", "e">>
network_device_remove == <<"n", "e", "t", "w", "o", "r", "k", "_", "d", "e", "v", "i", "c", "e", "_", "r", "e", "m", "o", "v", "e">>
organization_licenses_overview == <<"o", "r", "g", "a", "n", "i", "z", "a", "t", "i", "o", "n", "_", "l", "i", "c", "e", "n", "s", "e", "s", "_", "o", "v", "e", "r", "v", "i", "e", "w">>

\* The registered tools whose method is POST, PUT or DELETE: device_update,
\* device_blink_leds, device_remove, device_management_interface_update,
\* organization_update, organization_license_claim, organization_admin_create,
\* organization_inventory_claim, organization_networks_combine,
\* network_devices_claim, network_firmware_upgrades_update,
\* network_settings_update, network_alerts_settings_update, network_split,
\* network_bind, network_unbind and the five named above.
WriteTools ==
    { network_delete, organization_network_create, device_reboot, network_update,
      network_device_remove,
      <<"d", "e", "v", "i", "c", "e", "_", "u", "p", "d", "a", "t", "e">>,
      <<"d", "e", "v", "i", "c", "e", "_", "b", "l", "i", "n", "k", "_", "l", "e", "d", "s">>,
      <<"d", "e", "v", "i", "c", "e", "_", "r", "e", "m", "o", "v", "e">>,
      <<"d", "e", "v", "i", "c", "e", "_", "m", "a", "n", "a", "g", "e", "m", "e", "n", "t", "_", "i", "n", "t", "e", "r", "f", "a", "c", "e", "_", "u", "p", "d", "a", "t", "e">>,
      <<"o", "r", "g", "a", "n", "i", "z", "a", "t", "i", "o", "n", "_", "u", "p", "d", "a", "t", "e">>,
      <<"o", "r", "g", "a", "n", "i", "z", "a", "t", "i", "o", "n", "_", "l", "i", "c", "e", "n", "s", "e", "_", "c", "l", "a", "i", "m">>,
      <<"o", "r", "g", "a", "n", "i", "z", "a", "t", "i", "o", "n", "_", "a", "d", "m", "i", "n", "_", "c", "r", "e", "a", "t", "e">>,
      <<"o", "r", "g", "a", "n", "i", "z", "a", "t", "i", "o", "n", "_", "i", "n", "v", "e", "n", "t", "o", "r", "y", "_", "c", "l", "a", "i", "m">>,
      <<"o", "r", "g", "a", "n", "i", "z", "a", "t", "i", "o", "n", "_", "n", "e", "t", "w", "o", "r", "k", "s", "_", "c", "o", "m", "b", "i", "n", "e">>,
      <<"n", "e", "t", "w", "o", "r", "k", "_", "d", "e", "v", "i", "c", "e", "s", "_", "c", "l", "a", "i", "m">>,
      <<"n", "e", "t", "w", "o", "r", "k", "_", "f", "i", "r", "m", "w", "a", "r", "e", "_", "u", "p", "g", "r", "a", "d", "e", "s", "_", "u", "p", "d", "a", "t", "e">>,
      <<"n", "e", "t", "w", "o", "r", "k", "_", "s", "e", "t", "t", "i", "n", "g", "s", "_", "u", "p", "d", "a", "t", "e">>,
      <<"n", "e", "t", "w", "o", "r", "k", "_", "a", "l", "e", "r", "t", "s", "_", "s", "e", "t", "t", "i", "n", "g", "s", "_", "u", "p", "d", "a", "t", "e">>,
      <<"n", "e", "t", "w", "o", "r", "k", "_", "s", "p", "l", "i", "t">>,
      <<"n", "e", "t", "w", "o", "r", "k", "_", "b", "i", "n", "d">>,
      <<"n", "e", "t", "w", "o", "r", "k", "_", "u", "n", "b", "i", "n", "d">> }

ToolNames == {network_get, network_clients_list, organization_security_events,
              organization_licenses_overview} \cup WriteTools

PatAll == <<"*">>
PatDelete == <<"*", "_", "d", "e", "l", "e", "t", "e">>
PatCreate == <<"*", "_", "c", "r", "e", "a", "t", "e">>
PatNetwork == <<"n", "e", "t", "w", "o", "r", "k", "_", "*">>
PatReboo == <<"d", "e", "v", "i", "c", "e", "_", "r", "e", "b", "o", "o", "?">>
\* a pattern with a character that is special in a regular expression
PatDot == <<"n", "e", "t", "w", "o", "r", "k", ".", "g", "e", "t">>

(***************************************************************************)
(* SettingsManager.matchesPattern: the pattern is rewritten into a         *)
(* regular expression ('*' -> '.*', '?' -> '.', '[' and ']' escaped, every *)
(* other character copied as it is) and tested anchored on the whole name. *)
(* RegexToken gives the regular-expression element each pattern character  *)
(* becomes; a '.' of the pattern is copied unescaped and is the regular    *)
(* expression's "any character".                                           *)
(***************************************************************************)
RegexToken(c) ==
    CASE c = "*" -> [kind |-> "anyrun", ch |-> "."]
      [] c = "?" -> [kind |-> "any", ch |-> "."]
      [] c = "." -> [kind |-> "any", ch |-> "."]
      [] OTHER   -> [kind |-> "lit", ch |-> c]

RegexPattern(pattern) == [i \in DOMAIN pattern |-> RegexToken(pattern[i])]

RECURSIVE RegexTest(_, _, _, _)
RegexTest(re, i, s, j) ==
    IF i > Len(re) THEN j > Len(s)
    ELSE IF re[i].kind = "anyrun"
         THEN \/ RegexTest(re, i + 1, s, j)
              \/ (j <= Len(s) /\ RegexTest(re, i, s, j + 1))
    ELSE IF j > Len(s) THEN FALSE
    ELSE IF re[i].kind = "any" THEN RegexTest(re, i + 1, s, j + 1)
    ELSE re[i].ch = s[j] /\ RegexTest(re, i + 1, s, j + 1)

matchesPattern(toolName, pattern) ==
    RegexTest(RegexPattern(pattern), 1, toolName, 1)

(***************************************************************************)
(* SettingsManager.isReadOnlyTool                                          *)
(***************************************************************************)
readOnlyPrefixes == << <<"g", "e", "t">>, <<"l", "i", "s", "t">>, <<"s", "h", "o", "w">>,
                       <<"v", "i", "e", "w">>, <<"r", "e", "a", "d">>,
                       <<"f", "e", "t", "c", "h">> >>

readOnlySuffixes == << <<"_", "g", "e", "t">>, <<"_", "l", "i", "s", "t">>,
                       <<"_", "s", "h", "o", "w">>, <<"_", "v", "i", "e", "w">>,
                       <<"_", "r", "e", "a", "d">>, <<"_", "f", "e", "t", "c", "h">>,
                       <<"_", "s", "t", "a", "t", "u", "s">>,
                       <<"_", "s", "t", "a", "t", "u", "s", "e", "s">> >>

readOnlyInfixes == << <<"_", "g", "e", "t", "_">>, <<"_", "l", "i", "s", "t", "_">>,
                      <<"_", "s", "t", "a", "t", "u", "s", "e", "s">>,
                      <<"_", "o", "v", "e", "r", "v", "i", "e", "w">> >>

\* A slip that would forget the suffixes.
isReadOnlyTool_noSuffix(toolName) ==
    LET lowerToolName == ToLowerCase(toolName) IN
    \/ \E i \in DOMAIN readOnlyPrefixes : StartsWith(lowerToolName, readOnlyPrefixes[i])
    \/ \E i \in DOMAIN readOnlyInfixes : StrIncludes(lowerToolName, readOnlyInfixes[i])

isReadOnlyTool(toolName) ==
    LET lowerToolName == ToLowerCase(toolName) IN
    \/ \E i \in DOMAIN readOnlyPrefixes : StartsWith(lowerToolName, readOnlyPrefixes[i])
    \/ \E i \in DOMAIN readOnlySuffixes : EndsWith(lowerToolName, readOnlySuffixes[i])
    \/ \E i \in DOMAIN readOnlyInfixes : StrIncludes(lowerToolName, readOnlyInfixes[i])

(***************************************************************************)
(* SettingsManager.shouldAutoApprove                                       *)
(***************************************************************************)
\* A slip that would approve on the read-only toggle alone.
shouldAutoApprove_toggleAlone(toolName) ==
    IF ~settings.enabled THEN FALSE
    ELSE IF Includes(settings.tools.exclude, toolName) THEN FALSE
    ELSE IF settings.tools.all THEN TRUE
    ELSE IF Includes(settings.tools.specific, toolName) THEN TRUE
    ELSE IF \E i \in DOMAIN settings.tools.patterns :
                matchesPattern(toolName, settings.tools.patterns[i]) THEN TRUE
    ELSE settings.readOnlyByDefault \/ isReadOnlyTool(toolName)

\* A slip that would test the blanket flag before the exclude list.
shouldAutoApprove_allFirst(toolName) ==
    IF ~settings.enabled THEN FALSE
    ELSE IF settings.tools.all THEN TRUE
    ELSE IF Includes(settings.tools.exclude, toolName) THEN FALSE
    ELSE IF Includes(settings.tools.specific, toolName) THEN TRUE
    ELSE IF \E i \in DOMAIN settings.tools.patterns :
                matchesPattern(toolName, settings.tools.patterns[i]) THEN TRUE
    ELSE settings.readOnlyByDefault /\ isReadOnlyTool(toolName)

shouldAutoApprove(toolName) ==
    IF ~settings.enabled THEN FALSE
    ELSE IF Includes(settings.tools.exclude, toolName) THEN FALSE
    ELSE IF settings.tools.all THEN TRUE
    ELSE IF Includes(settings.tools.specific, toolName) THEN TRUE
    ELSE IF \E i \in DOMAIN settings.tools.patterns :
                matchesPattern(toolName, settings.tools.patterns[i]) THEN TRUE
    ELSE settings.readOnlyByDefault /\ isReadOnlyTool(toolName)

\* BaseTool.getToolDefinition: the definition carries requiresApproval: true
\* exactly when the tool is not auto-approved (the key is absent otherwise).
getToolDefinition(toolName) ==
    LET requiresApproval == ~shouldAutoApprove(toolName) IN
    [name |-> toolName, requiresApproval |-> requiresApproval]

(***************************************************************************)
(* The settings a settings file can give (loaded once, then read-only)     *)
(***************************************************************************)
PatternLists == { <<>>, <<PatAll>>, <<PatNetwork>>, <<PatReboo, PatDelete>>, <<PatDot>> }
SpecificLists == { <<>>, <<network_delete>>, <<device_reboot, network_get>> }
ExcludeLists == { <<>>, <<PatDelete, PatCreate>>, <<network_delete>>,
                  <<device_reboot, network_get>> }

SettingsPool ==
    [ enabled : BOOLEAN,
      tools : [ all : BOOLEAN, patterns : PatternLists,
                specific : SpecificLists, exclude : ExcludeLists ],
      readOnlyByDefault : BOOLEAN ]

NoQuery == [op |-> "none"]

PolInit == settings \in SettingsPool /\ polOut = NoQuery

QueryShouldAutoApprove ==
    \E n \in ToolNames :
        /\ polOut' = [op |-> "shouldAutoApprove", name |-> n,
                      approved |-> shouldAutoApprove(n)]
        /\ UNCHANGED settings
        /\ PolFrame

QueryGetToolDefinition ==
    \E n \in ToolNames :
        /\ polOut' = [op |-> "getToolDefinition", name |-> n,
                      approved |-> shouldAutoApprove(n),
                      def |-> getToolDefinition(n)]
        /\ UNCHANGED settings
        /\ PolFrame

PolNext == QueryShouldAutoApprove \/ QueryGetToolDefinition

(***************************************************************************)
(* JSON values.  A payload is a tagged record:                             *)
(*   Num(n), Str(s) (s a sequence of characters), Bool(b), Null,           *)
(*   Arr(xs) (xs a sequence of values) and Obj(fs) (fs the sequence of     *)
(*   [k, v] entries in insertion order, as Object.entries lists them).     *)
(***************************************************************************)
Num(n) == [t |-> "num", n |-> n]
Str(s) == [t |-> "str", s |-> s]
Bool(b) == [t |-> "bool", b |-> b]
Null == [t |-> "null"]
Arr(xs) == [t |-> "arr", xs |-> xs]
Obj(fs) == [t |-> "obj", fs |-> fs]
Entry(k, v) == [k |-> k, v |-> v]

\* !value
Falsy(value) ==
    \/ value.t \in {"undefined", "null", "nan"}
    \/ value = Num(0) \/ value = Str(<<>>) \/ value = Bool(FALSE)

\* What a TypeError thrown while bounding leaves the caller with.
Thrown == [t |-> "throw"]

\* A slip that would take the whole length where the smaller of two is meant.
Min_second(a, b) == b

Min(a, b) == IF a <= b THEN a ELSE b

RECURSIVE SumSeq(_)
SumSeq(ns) == IF ns = <<>> THEN 0 ELSE Head(ns) + SumSeq(Tail(ns))

RECURSIVE Digits(_)
Digits(n) ==
    LET d == <<"0", "1", "2", "3", "4", "5", "6", "7", "8", "9">> IN
    IF n < 10 THEN <<d[n + 1]>> ELSE Digits(n \div 10) \o <<d[(n % 10) + 1]>>

\* JSON.stringify(v).length (no character of the modelled strings needs an
\* escape).
RECURSIVE JSONStringifyLength(_)
JSONStringifyLength(v) ==
    CASE v.t = "num"  -> Len(Digits(v.n))
      [] v.t = "str"  -> Len(v.s) + 2
      [] v.t = "bool" -> IF v.b THEN 4 ELSE 5
      [] v.t = "null" -> 4
      [] v.t = "arr"  ->
            2 + SumSeq([i \in DOMAIN v.xs |-> JSONStringifyLength(v.xs[i])])
              + (IF Len(v.xs) > 1 THEN Len(v.xs) - 1 ELSE 0)
      [] v.t = "obj"  ->
            2 + SumSeq([i \in DOMAIN v.fs |->
                          Len(v.fs[i].k) + 3 + JSONStringifyLength(v.fs[i].v)])
              + (IF Len(v.fs) > 1 THEN Len(v.fs) - 1 ELSE 0)

HasKey(o, key) == o.t = "obj" /\ \E i \in DOMAIN o.fs : o.fs[i].k = key

Field(o, key) == o.fs[CHOOSE i \in DOMAIN o.fs : o.fs[i].k = key].v

(***************************************************************************)
(* optimizeResponse (structural bounding)                                  *)
(***************************************************************************)
TruncatedMarker == <<".", ".", ".", " ", "[", "t", "r", "u", "n", "c", "a", "t", "e", "d", "]">>

\* A slip that would compare with >= and annotate a sequence of exactly the
\* maximum length.
ArrayOverLimit_orEqual(length, maxArrayLength) == length >= maxArrayLength

\* data.length > options.maxArrayLength
ArrayOverLimit(length, maxArrayLength) == length > maxArrayLength

\* A slip that would annotate with the original length as returnedCount.
TruncationMeta_total(totalCount, returnedCount) ==
    Obj(<< Entry("totalCount", Num(totalCount)),
           Entry("returnedCount", Num(totalCount)),
           Entry("truncated", Bool(TRUE)) >>)

TruncationMeta(totalCount, returnedCount) ==
    Obj(<< Entry("totalCount", Num(totalCount)),
           Entry("returnedCount", Num(returnedCount)),
           Entry("truncated", Bool(TRUE)) >>)

RECURSIVE optimizeResponse(_, _)
optimizeResponse(data, options) ==
    CASE data.t = "null" -> data
      [] data.t = "arr" ->
            LET kept == SubSeq(data.xs, 1, Min(options.maxArrayLength, Len(data.xs)))
                optimized == [i \in DOMAIN kept |-> optimizeResponse(kept[i], options)]
            IN  IF ArrayOverLimit(Len(data.xs), options.maxArrayLength)
                THEN Obj(<< Entry("data", Arr(optimized)),
                            Entry("_meta", TruncationMeta(Len(data.xs), Len(optimized))) >>)
                ELSE Arr(optimized)
      [] data.t = "obj" ->
            LET keep(e) == ~(options.removeNullFields /\ e.v.t = "null")
                kept == SelectSeq(data.fs, keep)
            IN  Obj([i \in DOMAIN kept |->
                        Entry(kept[i].k, optimizeResponse(kept[i].v, options))])
      [] data.t = "str" ->
            IF options.truncateLongStrings /\ Len(data.s) > options.maxStringLength
            THEN Str(SubSeq(data.s, 1, options.maxStringLength) \o TruncatedMarker)
            ELSE data
      [] OTHER -> data

(***************************************************************************)
(* createSummaryResponse (cardinality summarization)                       *)
(***************************************************************************)
SummaryThreshold == 50
SummaryFirstItems == 5
SummarySamples == 5

IsPrimitive(v) == v.t \in {"num", "str", "bool", "null"}

\* [...new Set(values)]: the distinct values in order of first occurrence;
\* primitives are compared by value, objects and arrays by identity.
RECURSIVE SetOf(_, _)
SetOf(values, acc) ==
    IF values = <<>> THEN acc
    ELSE LET v == Head(values) IN
         IF IsPrimitive(v) /\ Includes(acc, v)
         THEN SetOf(Tail(values), acc)
         ELSE SetOf(Tail(values), Append(acc, v))

\* data.map(item => item[field]).filter(v => v !== undefined)
FieldValues(xs, field) ==
    LET has(item) == HasKey(item, field)
        items == SelectSeq(xs, has)
    IN  [i \in DOMAIN items |-> Field(items[i], field)]

RECURSIVE FacetEntries(_, _)
FacetEntries(xs, summaryFields) ==
    IF summaryFields = <<>> THEN <<>>
    ELSE LET field == Head(summaryFields)
             values == FieldValues(xs, field)
             uniq == SetOf(values, <<>>)
             rest == FacetEntries(xs, Tail(summaryFields))
         IN  IF Len(values) > 0
             THEN << Entry(field,
                       Obj(<< Entry("uniqueCount", Num(Len(uniq))),
                              Entry("samples",
                                    Arr(SubSeq(uniq, 1, Min(SummarySamples, Len(uniq))))) >>)) >>
                  \o rest
             ELSE rest

createSummaryResponse(data, summaryFields) ==
    IF data.t # "arr" \/ Len(data.xs) = 0 THEN data
    ELSE IF Len(data.xs) > SummaryThreshold
    THEN IF data.xs[1].t \in {"obj", "arr"} /\ summaryFields # <<>>
            /\ \E i \in DOMAIN data.xs : data.xs[i].t = "null"
         THEN Thrown    \* item[field] of a null item is a TypeError
         ELSE Obj(<< Entry("totalCount", Num(Len(data.xs))),
                     Entry("firstItems", Arr(SubSeq(data.xs, 1, SummaryFirstItems))),
                     Entry("summary",
                           Obj(IF data.xs[1].t \in {"obj", "arr"}
                               THEN FacetEntries(data.xs, summaryFields)
                               ELSE <<>>)) >>)
    ELSE data

(***************************************************************************)
(* BaseTool.getSummaryFields and BaseTool.applyResponseOptimization        *)
(***************************************************************************)
getSummaryFields(toolName) ==
    IF StrIncludes(toolName, <<"c", "l", "i", "e", "n", "t", "s">>)
    THEN <<"description", "mac", "ip", "vlan", "status">>
    ELSE IF StrIncludes(toolName, <<"d", "e", "v", "i", "c", "e", "s">>)
    THEN <<"name", "model", "serial", "status", "productType">>
    ELSE IF StrIncludes(toolName, <<"e", "v", "e", "n", "t", "s">>)
    THEN <<"type", "category", "occurredAt", "description">>
    ELSE IF StrIncludes(toolName, <<"n", "e", "t", "w", "o", "r", "k", "s">>)
    THEN <<"name", "id", "productTypes", "timeZone">>
    ELSE IF StrIncludes(toolName, <<"l", "i", "c", "e", "n", "s", "e", "s">>)
    THEN <<"licenseType", "state", "expirationDate">>
    ELSE <<"name", "id", "type", "status">>

HintText == <<"U", "s", "e", " ", "p", "e", "r", "P", "a", "g", "e", " ", "p", "a", "r", "a", "m", "e", "t", "e", "r", " ", "t", "o", " ", "c", "o", "n", "t", "r", "o", "l", " ", "r", "e", "s", "p", "o", "n", "s", "e", " ", "s", "i", "z", "e", ".", " ", "M", "a", "x", " ", "r", "e", "c", "o", "m", "m", "e", "n", "d", "e", "d", ":", " ">>

applyResponseOptimization(toolName, response, limits) ==
    LET responseSize == JSONStringifyLength(response) IN
    IF /\ StrIncludes(toolName, <<"_", "l", "i", "s", "t">>)
       /\ response.t = "arr"
       /\ Len(response.xs) > limits.maxArrayLength
    THEN Obj(<< Entry("data", Arr(SubSeq(response.xs, 1, limits.maxArrayLength))),
                Entry("meta",
                      Obj(<< Entry("total", Num(Len(response.xs))),
                             Entry("returned", Num(limits.maxArrayLength)),
                             Entry("truncated", Bool(TRUE)),
                             Entry("hint", Str(HintText \o Digits(limits.maxArrayLength))) >>)) >>)
    ELSE IF responseSize > limits.maxResponseSize /\ limits.summarizeArrays
    THEN createSummaryResponse(response, getSummaryFields(toolName))
    ELSE response

(***************************************************************************)
(* formatToolResponse                                                      *)
(***************************************************************************)
RECURSIVE Flatten(_)
Flatten(seqs) == IF seqs = <<>> THEN <<>> ELSE Head(seqs) \o Flatten(Tail(seqs))

\* the members of an array or object text, separated by commas
Joined(members) ==
    Flatten([i \in DOMAIN members |->
                IF i = 1 THEN members[i] ELSE <<",">> \o members[i]])

\* JSON.stringify(v): the text as a sequence of characters, a key or a
\* literal being one element (no character of the modelled strings needs an escape)
RECURSIVE JSONStringify(_)
JSONStringify(v) ==
    CASE v.t = "num"  -> Digits(v.n)
      [] v.t = "str"  -> <<"\"">> \o v.s \o <<"\"">>
      [] v.t = "bool" -> << IF v.b THEN "true" ELSE "false" >>
      [] v.t = "null" -> << "null" >>
      [] v.t = "arr"  ->
            <<"[">> \o Joined([i \in DOMAIN v.xs |-> JSONStringify(v.xs[i])]) \o <<"]">>
      [] v.t = "obj"  ->
            <<"{">>
            \o Joined([i \in DOMAIN v.fs |->
                          <<"\"", v.fs[i].k, "\"", ":">> \o JSONStringify(v.fs[i].v)])
            \o <<"}">>

Stringified(v) == IF v = Thrown THEN Thrown ELSE JSONStringify(v)

network_events_list == <<"n", "e", "t", "w", "o", "r", "k", "_", "e", "v", "e", "n", "t", "s", "_", "l", "i", "s", "t">>
organization_devices_list == <<"o", "r", "g", "a", "n", "i", "z", "a", "t", "i", "o", "n", "_", "d", "e", "v", "i", "c", "e", "s", "_", "l", "i", "s", "t">>

FormatThreshold == 30

\* the options of the basic optimization of formatToolResponse
FORMAT_OPTIONS ==
    [ maxArrayLength |-> 100, truncateLongStrings |-> TRUE,
      maxStringLength |-> 500, removeNullFields |-> TRUE ]

\* the switch on toolName; <<>> stands for the call without summaryFields
FormatSummaryFields(toolName) ==
    CASE toolName = network_clients_list ->
            <<"description", "mac", "ip", "vlan", "status", "usage">>
      [] toolName = organization_devices_list ->
            <<"name", "model", "serial", "status", "networkId">>
      [] OTHER -> <<>>

\* data.meta || data._meta || data._summary
AlreadyOptimized(data) ==
    /\ data.t = "obj"
    /\ \E key \in {"meta", "_meta", "_summary"} :
          HasKey(data, key) /\ ~Falsy(Field(data, key))

formatToolResponse(data, toolName) ==
    IF AlreadyOptimized(data) THEN JSONStringify(data)
    ELSE IF data.t = "arr" /\ Len(data.xs) > FormatThreshold
    THEN Stringified(createSummaryResponse(data, FormatSummaryFields(toolName)))
    ELSE IF toolName = network_events_list /\ data.t = "null"
    THEN Thrown    \* data.events of null is a TypeError
    ELSE IF /\ toolName = network_events_list
            /\ HasKey(data, "events")
            /\ Field(data, "events").t = "arr"
            /\ Len(Field(data, "events").xs) > FormatThreshold
    THEN LET events == createSummaryResponse(
                           Field(data, "events"),
                           <<"type", "category", "occurredAt", "description">>)
         IN  IF events = Thrown THEN Thrown
             ELSE JSONStringify(
                      Obj([i \in DOMAIN data.fs |->
                              IF data.fs[i].k = "events"
                              THEN Entry("events", events) ELSE data.fs[i]]))
    ELSE JSONStringify(optimizeResponse(data, FORMAT_OPTIONS))

(***************************************************************************)
(* Payloads an upstream response can carry, and the limits a caller or the *)
(* settings file can configure                                             *)
(***************************************************************************)
MaxItems == 3          \* short sequences have 0..MaxItems items
MaxArrayLengthBound == 2   \* structural maxima tried: 1..MaxArrayLengthBound
MaxStringLengthBound == 2  \* string maxima tried: 1..MaxStringLengthBound

RECURSIVE SeqsUpTo(_, _)
SeqsUpTo(S, n) ==
    IF n = 0 THEN { <<>> }
    ELSE LET shorter == SeqsUpTo(S, n - 1) IN
         shorter \cup { Append(q, x) : q \in { r \in shorter : Len(r) = n - 1 }, x \in S }

Atoms == { Num(7), Null, Str(<<"a", "b", "c">>) }

FlatArrays == { Arr(xs) : xs \in SeqsUpTo(Atoms, MaxItems) }

\* A device-like record: Object.entries order is id, status, name, notes.
Item(i) ==
    Obj(<< Entry("id", Num(i)),
           Entry("status", Str(IF i % 2 = 0 THEN <<"u", "p">> ELSE <<"d", "o", "w", "n">>)),
           Entry("name", Str(<<"d">> \o Digits(i % 7))),
           Entry("notes", Null) >>)

Items(n) == Arr([i \in 1..n |-> Item(i)])

NestedPayloads ==
    { Arr(<<a>>) : a \in FlatArrays }
    \cup { Obj(<< Entry("networks", Arr(<< Obj(<< Entry("devices", a) >>), Num(7) >>)) >>) :
             a \in FlatArrays }
    \cup { Obj(<< Entry("note", x), Entry("tags", a) >>) :
             x \in Atoms, a \in { Arr(<<>>), Arr(<<Num(7), Num(7), Num(7)>>) } }

LargePayloads ==
    { Items(n) : n \in { SummaryThreshold, SummaryThreshold + 1,
                         SummaryThreshold + MaxItems } }
    \cup { Arr([i \in 1..(SummaryThreshold + 1) |-> Num(i)]),
           Arr([i \in 1..(SummaryThreshold + 1) |->
                   IF i = MaxItems THEN Null ELSE Item(i)]) }

Payloads == Atoms \cup FlatArrays \cup NestedPayloads \cup LargePayloads
            \cup { Items(n) : n \in 1..MaxItems }

OptionsPool ==
    [ maxArrayLength : 1..MaxArrayLengthBound,
      truncateLongStrings : BOOLEAN,
      maxStringLength : 1..MaxStringLengthBound,
      removeNullFields : BOOLEAN ]

\* settings.responseLimits
LimitsPool ==
    [ maxArrayLength : { MaxArrayLengthBound, SummaryThreshold },
      maxResponseSize : { 20, 30000 },
      summarizeArrays : BOOLEAN ]

BoundedTools == { network_clients_list, network_get, organization_security_events }

NoCall == [op |-> "none"]

BndInit == bndOut = NoCall /\ fmtOut = NoCall

\* One bounding call is followed per behaviour (the functions are pure).
CallOptimizeResponse ==
    \E x \in Payloads, o \in OptionsPool :
        /\ bndOut = NoCall
        /\ BndFrame /\ UNCHANGED fmtOut
        /\ bndOut' = [op |-> "optimizeResponse", in |-> x, options |-> o,
                   out |-> optimizeResponse(x, o), again |-> FALSE, out2 |-> Null]

CallApplyResponseOptimization ==
    \E x \in Payloads, n \in BoundedTools, l \in LimitsPool :
        /\ bndOut = NoCall
        /\ BndFrame /\ UNCHANGED fmtOut
        /\ bndOut' = [op |-> "applyResponseOptimization", in |-> x, tool |-> n,
                   limits |-> l, out |-> applyResponseOptimization(n, x, l),
                   again |-> FALSE, out2 |-> Null]

\* The bounding step applied to its own output.
Reapply ==
    /\ bndOut.op \in {"optimizeResponse", "applyResponseOptimization"}
    /\ ~bndOut.again
    /\ BndFrame /\ UNCHANGED fmtOut
    /\ bndOut.out # Thrown
    /\ bndOut' = [bndOut EXCEPT
                    !.again = TRUE,
                    !.out2 = IF bndOut.op = "optimizeResponse"
                             THEN optimizeResponse(bndOut.out, bndOut.options)
                             ELSE applyResponseOptimization(bndOut.tool, bndOut.out,
                                                            bndOut.limits)]

\* A network-like record whose productTypes field holds an array, as the
\* networks of the upstream API do.
NetworkItem(i) ==
    Obj(<< Entry("id", Num(i)),
           Entry("productTypes", Arr(<< Str(<<"m", "x">>) >>)) >>)

SummaryInputs ==
    LargePayloads
    \cup { Arr(<<>>), Items(MaxItems), Num(7),
           Arr([i \in 1..(SummaryThreshold + 1) |-> NetworkItem(i)]),
           Arr([i \in 1..(SummaryThreshold + 1) |->
                   IF i = 1 THEN Num(7) ELSE Item(i)]) }

\* summaryFields of a call; <<>> stands for a call without them
SummaryFieldsPool ==
    { <<>>, <<"status", "name">>, <<"id", "notes", "model">>, <<"productTypes">> }

CallCreateSummaryResponse ==
    \E x \in SummaryInputs, f \in SummaryFieldsPool :
        /\ bndOut = NoCall
        /\ BndFrame /\ UNCHANGED fmtOut
        /\ bndOut' = [op |-> "createSummaryResponse", in |-> x, fields |-> f,
                      out |-> createSummaryResponse(x, f), again |-> FALSE,
                      out2 |-> Null]

FormatTools == { network_clients_list, network_get, network_events_list }

\* formatToolResponse applied to the result of the bounding call
CallFormatToolResponse ==
    \E n \in FormatTools :
        /\ bndOut.op # "none" /\ fmtOut = NoCall
        /\ bndOut.out # Thrown
        /\ BndFrame /\ UNCHANGED bndOut
        /\ fmtOut' = [op |-> "formatToolResponse", in |-> bndOut.out, tool |-> n,
                      out |-> formatToolResponse(bndOut.out, n)]

BndNext ==
    \/ CallOptimizeResponse \/ CallApplyResponseOptimization \/ Reapply
    \/ CallCreateSummaryResponse \/ CallFormatToolResponse

(***************************************************************************)
(* organization_security_events.customExecutor (composite aggregation),    *)
(* run by BaseTool.execute and followed by applyResponseOptimization.      *)
(*                                                                         *)
(* Events are JSON objects; occurredAt is an ISO date "2024-01-0d" and     *)
(* new Date(occurredAt).getTime() is the number of milliseconds it parses  *)
(* to (counted from 2024-01-00).  Only well-formed dates are modelled.     *)
(***************************************************************************)
MaxDay == 2            \* events occur on days 1..MaxDay

MsPerDay == 86400000

IsoDate(day) == <<"2", "0", "2", "4", "-", "0", "1", "-", "0">> \o Digits(day)

DigitValue(c) ==
    CHOOSE n \in 0..9 : Digits(n) = <<c>>

\* new Date(iso).getTime()
DateGetTime(iso) == DigitValue(iso[Len(iso)]) * MsPerDay

UpstreamEvent(eid, day) ==
    Obj(<< Entry("eventId", Num(eid)), Entry("occurredAt", Str(IsoDate(day))) >>)

\* { ...event, networkId: network.id, networkName: network.name }
WithNetwork(event, network) ==
    Obj(event.fs \o << Entry("networkId", Str(<<network.id>>)),
                       Entry("networkName", Str(<<network.name>>)) >>)

OccurredAt(event) == DateGetTime(Field(event, "occurredAt").s)

\* Array.prototype.sort with (a, b) => time(b) - time(a): stable, so events of
\* equal time keep their order in the array.
RECURSIVE InsertByTime(_, _)
InsertByTime(sorted, e) ==
    IF sorted = <<>> THEN <<e>>
    ELSE IF OccurredAt(Head(sorted)) >= OccurredAt(e)
         THEN <<Head(sorted)>> \o InsertByTime(Tail(sorted), e)
         ELSE <<e>> \o sorted

RECURSIVE SortByTimeDesc(_)
SortByTimeDesc(events) ==
    IF events = <<>> THEN <<>>
    ELSE InsertByTime(SortByTimeDesc(SubSeq(events, 1, Len(events) - 1)),
                      events[Len(events)])

\* A slip that would keep the end of the sorted array, slice(-perPage).
Paginate_oldest(events, perPage) ==
    IF perPage # 0
    THEN SubSeq(events, Len(events) - Min(perPage, Len(events)) + 1, Len(events))
    ELSE events

\* if (params.perPage) slice(0, params.perPage); 0 stands for "not given"
Paginate(events, perPage) ==
    IF perPage # 0 THEN SubSeq(events, 1, Min(perPage, Len(events))) ELSE events

\* The response of one child sub-call: the call fails (apiClient.get throws),
\* or returns a body with or without an events array.
ChildFails == [ok |-> FALSE]
ChildNoEvents == [ok |-> TRUE, hasEvents |-> FALSE]
ChildEvents(evs) == [ok |-> TRUE, hasEvents |-> TRUE, events |-> evs]

\* eventsResponse.data.events?.map(...) || []
EventsWithNetwork(resp, network) ==
    IF resp.hasEvents
    THEN [i \in DOMAIN resp.events |-> WithNetwork(resp.events[i], network)]
    ELSE <<>>

\* A slip that would rethrow a child's error instead of skipping the child.
OnChildError_rethrow == "throw"

\* catch (error) { continue; }
OnChildError == "continue"

Network(c) == [id |-> c, name |-> c]

ChildResponses ==
    { ChildFails, ChildNoEvents, ChildEvents(<<>>) }
    \cup { ChildEvents(<<UpstreamEvent(1, d)>>) : d \in 1..MaxDay }
    \cup { ChildEvents(<<UpstreamEvent(1, d1), UpstreamEvent(2, d2)>>) :
             d1 \in 1..MaxDay, d2 \in 1..MaxDay }

ThreeChildren == {"a", "b", "c"}
FiveChildren == {"a", "b", "c", "d", "e"}

\* 5 children, 2 fail, 3 return 1, 2 and 3 events with distinct times.
FiveChildrenScenario ==
    [ c \in FiveChildren |->
        CASE c = "a" -> ChildEvents(<<UpstreamEvent(1, 1)>>)
          [] c = "b" -> ChildFails
          [] c = "c" -> ChildEvents(<<UpstreamEvent(1, 3), UpstreamEvent(2, 2)>>)
          [] c = "d" -> ChildFails
          [] c = "e" -> ChildEvents(<<UpstreamEvent(1, 6), UpstreamEvent(2, 5),
                                      UpstreamEvent(3, 4)>>) ]

Scenarios == [ThreeChildren -> ChildResponses] \cup {FiveChildrenScenario}

\* perPage of the validated parameters (0: not given; the schema wants >= 3)
PerPagePool == {0, 3, 4}

Orders(S) ==
    { f \in [1..Cardinality(S) -> S] : \A i, j \in DOMAIN f : f[i] = f[j] => i = j }

DefaultLimits == [maxArrayLength |-> 50, maxResponseSize |-> 30000, summarizeArrays |-> TRUE]

\* The tail of the executor after the loop (sort, paginate, return), then
\* BaseTool.execute's applyResponseOptimization of the returned object.
CompositeReturn(events, perPage) ==
    LET sorted == SortByTimeDesc(events)
        page == Paginate(sorted, perPage)
    IN  applyResponseOptimization(
            organization_security_events,
            Obj(<< Entry("events", Arr(page)),
                   Entry("total", Num(Len(page))),
                   Entry("organizationId", Str(<<"o">>)) >>),
            DefaultLimits)

CmpInit ==
    /\ cmpPc = "listing"
    /\ childResp \in Scenarios
    /\ cmpParams \in [perPage : PerPagePool]
    /\ networks = <<>>
    /\ cmpNext = 0
    /\ allSecurityEvents = <<>>
    /\ cmpMerged = <<>>
    /\ cmpResult = Null

\* The rest of the loop from child i on, as far as it runs without awaiting:
\* with no child left the executor sorts, paginates and returns.
CmpAfterChild(events, i) ==
    IF i > Len(networks')
    THEN /\ cmpPc' = "done"
         /\ cmpMerged' = SortByTimeDesc(events)
         /\ cmpResult' = CompositeReturn(events, cmpParams.perPage)
    ELSE /\ cmpPc' = "child"
         /\ UNCHANGED <<cmpMerged, cmpResult>>

\* await apiClient.get(`/organizations/${id}/networks`) returns the children
\* in the order the upstream lists them.
ListNetworksOk ==
    /\ cmpPc = "listing"
    /\ CmpFrame
    /\ \E order \in Orders(DOMAIN childResp) :
          networks' = [i \in DOMAIN order |-> Network(order[i])]
    /\ cmpNext' = 1
    /\ CmpAfterChild(allSecurityEvents, 1)
    /\ UNCHANGED <<cmpParams, childResp, allSecurityEvents>>

\* The listing throws: the executor has no try around it, execute fails.
ListNetworksFails ==
    /\ cmpPc = "listing"
    /\ CmpFrame
    /\ cmpPc' = "failed"
    /\ UNCHANGED <<networks, cmpParams, childResp, cmpNext, allSecurityEvents,
                   cmpMerged, cmpResult>>

\* await apiClient.get(`/networks/${network.id}/events`, ...) resolves.
ChildOk ==
    /\ cmpPc = "child"
    /\ CmpFrame
    /\ childResp[networks[cmpNext].id].ok
    /\ LET events == allSecurityEvents \o
                     EventsWithNetwork(childResp[networks[cmpNext].id], networks[cmpNext])
       IN  /\ allSecurityEvents' = events
           /\ cmpNext' = cmpNext + 1
           /\ UNCHANGED <<networks, cmpParams, childResp>>
           /\ CmpAfterChild(events, cmpNext + 1)

\* The child's get throws: the catch block skips the child.
ChildFailsStep ==
    /\ cmpPc = "child"
    /\ CmpFrame
    /\ ~childResp[networks[cmpNext].id].ok
    /\ UNCHANGED <<networks, cmpParams, childResp, allSecurityEvents>>
    /\ IF OnChildError = "continue"
       THEN /\ cmpNext' = cmpNext + 1
            /\ CmpAfterChild(allSecurityEvents, cmpNext + 1)
       ELSE /\ cmpPc' = "failed"
            /\ UNCHANGED <<cmpNext, cmpMerged, cmpResult>>

CmpNext == ListNetworksOk \/ ListNetworksFails \/ ChildOk \/ ChildFailsStep

\* The composite result for the children processed in a given order.
RECURSIVE CollectEvents(_, _)
CollectEvents(order, i) ==
    IF i > Len(order) THEN <<>>
    ELSE (IF childResp[order[i]].ok
          THEN EventsWithNetwork(childResp[order[i]], Network(order[i]))
          ELSE <<>>) \o CollectEvents(order, i + 1)

(***************************************************************************)
(* BaseTool.execute: defaults, coercion, transform, validation, dispatch   *)
(*                                                                         *)
(* A parameter object is a function from Keys to values; a key that the    *)
(* object does not have maps to Undefined.                                 *)
(***************************************************************************)
Undefined == [t |-> "undefined"]
NaN == [t |-> "nan"]

K_networkId == <<"n", "e", "t", "w", "o", "r", "k", "I", "d">>
K_organizationId == <<"o", "r", "g", "a", "n", "i", "z", "a", "t", "i", "o", "n", "I", "d">>
K_serial == <<"s", "e", "r", "i", "a", "l">>
K_perPage == <<"p", "e", "r", "P", "a", "g", "e">>
K_timespan == <<"t", "i", "m", "e", "s", "p", "a", "n">>
K_t0 == <<"t", "0">>

Keys == {K_networkId, K_organizationId, K_serial, K_perPage, K_timespan, K_t0}

NoParams == [k \in Keys |-> Undefined]

\* { ...a, ...b }, Object.assign(a, b)
Assign(a, b) == [k \in Keys |-> IF b[k] # Undefined THEN b[k] ELSE a[k]]

\* ---- zod schemas ----
ZodString == [typeName |-> "ZodString"]
\* z.number() / z.coerce.number() with .min() and .max(); a missing check is <<>>
ZodNumber(coerce, min, max) ==
    [typeName |-> "ZodNumber", coerce |-> coerce, min |-> min, max |-> max]
ZodOptional(innerType) == [typeName |-> "ZodOptional", innerType |-> innerType]
ZodDefault(innerType, defaultValue) ==
    [typeName |-> "ZodDefault", innerType |-> innerType, defaultValue |-> defaultValue]
\* z.string().datetime()
ZodDatetime == [typeName |-> "ZodString", datetime |-> TRUE]

\* validators.ts
paginationSchema_perPage == ZodOptional(ZodNumber(FALSE, <<1>>, <<1000>>))
timespanSchema == ZodNumber(TRUE, <<60>>, <<2678400>>)
trafficTimespanSchema == ZodDefault(ZodNumber(TRUE, <<7200>>, <<2592000>>), Num(86400))
iso8601Schema == ZodDatetime

\* the datetime check of zod: YYYY-MM-DDTHH:mm:ssZ (fractions of a second,
\* which it also accepts, are not among the modelled values)
IsDatetime(s) ==
    /\ Len(s) = 20
    /\ \A i \in 1..20 :
          CASE i \in {5, 8} -> s[i] = "-"
            [] i = 11 -> s[i] = "T"
            [] i \in {14, 17} -> s[i] = ":"
            [] i = 20 -> s[i] = "Z"
            [] OTHER -> s[i] \in {"0", "1", "2", "3", "4", "5", "6", "7", "8", "9"}

IsDigit(c) == c \in {"0", "1", "2", "3", "4", "5", "6", "7", "8", "9"}

RECURSIVE DecimalValue(_)
DecimalValue(s) ==
    IF s = <<>> THEN 0
    ELSE 10 * DecimalValue(SubSeq(s, 1, Len(s) - 1)) + DigitValue(s[Len(s)])

\* Number(value) for the values a caller can send
ToNumber(value) ==
    CASE value.t = "num" -> value
      [] value.t = "str" ->
            IF \A i \in DOMAIN value.s : IsDigit(value.s[i])
            THEN Num(DecimalValue(value.s)) ELSE NaN
      [] value.t = "null" -> Num(0)
      [] value.t = "bool" -> Num(IF value.b THEN 1 ELSE 0)
      [] OTHER -> NaN

ParseOk(data) == [success |-> TRUE, data |-> data]
ParseIssue(message) == [success |-> FALSE, message |-> message]

\* ZodType._parse for one field
RECURSIVE ZodParse(_, _)
ZodParse(schema, value) ==
    CASE schema.typeName = "ZodOptional" ->
            IF value = Undefined THEN ParseOk(Undefined)
            ELSE ZodParse(schema.innerType, value)
      [] schema.typeName = "ZodDefault" ->
            ZodParse(schema.innerType,
                     IF value = Undefined THEN schema.defaultValue ELSE value)
      [] schema.typeName = "ZodString" ->
            IF value.t = "str"
            THEN (IF "datetime" \in DOMAIN schema /\ ~IsDatetime(value.s)
                  THEN ParseIssue("Invalid datetime") ELSE ParseOk(value))
            ELSE IF value = Undefined THEN ParseIssue("Required")
            ELSE ParseIssue("Expected string")
      [] schema.typeName = "ZodNumber" ->
            LET input == IF schema.coerce THEN ToNumber(value) ELSE value
            IN  IF input.t # "num"
                THEN (IF input = Undefined THEN ParseIssue("Required")
                      ELSE ParseIssue("Expected number"))
                ELSE IF schema.min # <<>> /\ input.n < schema.min[1]
                THEN ParseIssue("too_small")
                ELSE IF schema.max # <<>> /\ input.n > schema.max[1]
                THEN ParseIssue("too_big")
                ELSE ParseOk(input)

ShapeHas(shape, key) == \E i \in DOMAIN shape : shape[i].k = key
ShapeOf(shape, key) == shape[CHOOSE i \in DOMAIN shape : shape[i].k = key].v

\* z.object(shape).safeParseAsync(params): issues in the order of the shape;
\* keys outside the shape are stripped from the parsed data.
safeParseAsync(shape, params) ==
    LET res == [i \in DOMAIN shape |-> ZodParse(shape[i].v, params[shape[i].k])]
        bad == { i \in DOMAIN shape : ~res[i].success }
    IN  IF bad = {}
        THEN [ success |-> TRUE,
               data |-> [k \in Keys |->
                          IF ShapeHas(shape, k)
                          THEN res[CHOOSE i \in DOMAIN shape : shape[i].k = k].data
                          ELSE Undefined] ]
        ELSE LET first == CHOOSE i \in bad : \A j \in bad : i <= j
             IN  [ success |-> FALSE, path |-> shape[first].k,
                   message |-> res[first].message ]

\* ---- the tool configurations ----
device_clients_list == <<"d", "e", "v", "i", "c", "e", "_", "c", "l", "i", "e", "n", "t", "s", "_", "l", "i", "s", "t">>
network_traffic_get == <<"n", "e", "t", "w", "o", "r", "k", "_", "t", "r", "a", "f", "f", "i", "c", "_", "g", "e", "t">>

ToolConfigs ==
    { [ name |-> network_get, method |-> "GET",
        inputSchema |-> << Entry(K_networkId, ZodString) >>,
        requiredParams |-> << K_networkId >>, transformParams |-> FALSE ],
      [ name |-> network_update, method |-> "PUT",
        inputSchema |-> << Entry(K_networkId, ZodString) >>,
        requiredParams |-> << K_networkId >>, transformParams |-> FALSE ],
      [ name |-> network_delete, method |-> "DELETE",
        inputSchema |-> << Entry(K_networkId, ZodString) >>,
        requiredParams |-> << K_networkId >>, transformParams |-> FALSE ],
      [ name |-> network_device_remove, method |-> "POST",
        inputSchema |-> << Entry(K_networkId, ZodString), Entry(K_serial, ZodString) >>,
        requiredParams |-> << K_networkId, K_serial >>, transformParams |-> FALSE ],
      [ name |-> network_clients_list, method |-> "GET",
        inputSchema |-> << Entry(K_networkId, ZodString),
                           Entry(K_timespan, ZodOptional(timespanSchema)),
                           Entry(K_perPage, paginationSchema_perPage) >>,
        requiredParams |-> << K_networkId >>, transformParams |-> FALSE ],
      [ name |-> device_clients_list, method |-> "GET",
        inputSchema |-> << Entry(K_serial, ZodString),
                           Entry(K_t0, ZodOptional(ZodString)),
                           Entry(K_timespan, ZodOptional(ZodNumber(TRUE, <<>>, <<2592000>>))) >>,
        requiredParams |-> << K_serial >>, transformParams |-> TRUE ],
      \* deviceType, an optional enum, is left out
      [ name |-> network_traffic_get, method |-> "GET",
        inputSchema |-> << Entry(K_networkId, ZodString),
                           Entry(K_t0, ZodOptional(iso8601Schema)),
                           Entry(K_timespan, ZodOptional(trafficTimespanSchema)) >>,
        requiredParams |-> << K_networkId >>, transformParams |-> TRUE ],
      [ name |-> organization_security_events, method |-> "COMPOSITE",
        inputSchema |-> << Entry(K_organizationId, ZodString),
                           Entry(K_t0, ZodOptional(ZodString)),
                           Entry(K_timespan, ZodOptional(ZodNumber(TRUE, <<>>, <<31536000>>))),
                           Entry(K_perPage, ZodOptional(ZodNumber(TRUE, <<3>>, <<1000>>))) >>,
        requiredParams |-> << K_organizationId >>, transformParams |-> FALSE ] }

\* DEFAULT_SETTINGS.defaultParams, the entries that match a modelled tool
PatList == <<"*", "_", "l", "i", "s", "t">>

DEFAULT_PARAMS ==
    << Entry(PatList, [NoParams EXCEPT ![K_perPage] = Num(25)]),
       Entry(network_clients_list,
             [NoParams EXCEPT ![K_perPage] = Num(20), ![K_timespan] = Num(3600)]) >>

\* defaultParams of a settings file: two patterns that match
\* network_clients_list, then the entry of that name
PatNetworkAll == <<"n", "e", "t", "w", "o", "r", "k", "_", "*">>
TWO_PATTERNS ==
    << Entry(PatList, [NoParams EXCEPT ![K_perPage] = Num(25), ![K_timespan] = Num(900)]),
       Entry(PatNetworkAll, [NoParams EXCEPT ![K_perPage] = Num(30)]),
       Entry(network_clients_list, [NoParams EXCEPT ![K_perPage] = Num(20)]) >>

\* the same with the entry of the name declared first
EXACT_FIRST ==
    << Entry(network_clients_list, [NoParams EXCEPT ![K_perPage] = Num(20)]),
       Entry(PatNetworkAll, [NoParams EXCEPT ![K_perPage] = Num(30)]),
       Entry(PatList, [NoParams EXCEPT ![K_perPage] = Num(25), ![K_timespan] = Num(900)]) >>

\* SettingsManager.getDefaultParams: every matching pattern in declaration
\* order, then the entry keyed by the tool's own name.
RECURSIVE PatternDefaults(_, _, _)
PatternDefaults(defaultParams, toolName, i) ==
    IF i = 0 THEN NoParams
    ELSE LET before == PatternDefaults(defaultParams, toolName, i - 1)
         IN  IF matchesPattern(toolName, defaultParams[i].k)
             THEN Assign(before, defaultParams[i].v) ELSE before

\* A slip that would apply the entry of the tool's name before the patterns.
getDefaultParams_exactFirst(defaultParams, toolName) ==
    LET own == IF \E i \in DOMAIN defaultParams : defaultParams[i].k = toolName
               THEN defaultParams[CHOOSE i \in DOMAIN defaultParams :
                                      defaultParams[i].k = toolName].v
               ELSE NoParams
    IN  Assign(own, PatternDefaults(defaultParams, toolName, Len(defaultParams)))

getDefaultParams(defaultParams, toolName) ==
    LET defaults == PatternDefaults(defaultParams, toolName, Len(defaultParams))
    IN  IF \E i \in DOMAIN defaultParams : defaultParams[i].k = toolName
        THEN Assign(defaults,
                    defaultParams[CHOOSE i \in DOMAIN defaultParams :
                                      defaultParams[i].k = toolName].v)
        ELSE defaults

\* BaseTool.coerceParameterTypes: of its three conversions only the numeric
\* one applies, the modelled schemas have no boolean or array field.
coerceParameterTypes(shape, params) ==
    [ k \in Keys |->
        LET value == params[k] IN
        IF value = Undefined \/ value = Null \/ ~ShapeHas(shape, k) THEN value
        ELSE LET fieldSchema == ShapeOf(shape, k)
                 unwrapped == IF fieldSchema.typeName = "ZodOptional"
                              THEN fieldSchema.innerType ELSE fieldSchema
                 \* the ZodDefault step reads fieldSchema._def.innerType again
                 innerSchema == IF unwrapped.typeName = "ZodDefault"
                                THEN fieldSchema.innerType ELSE unwrapped
             IN  IF /\ innerSchema.typeName = "ZodNumber"
                    /\ value.t = "str"
                    /\ ~innerSchema.coerce
                    /\ ToNumber(value) # NaN
                 THEN ToNumber(value)
                 ELSE value ]

\* transformParams of device_clients_list and of network_traffic_get
transformParams(tool, params) ==
    IF tool.transformParams /\ Falsy(params[K_timespan]) /\ Falsy(params[K_t0])
    THEN [params EXCEPT ![K_timespan] = Num(86400)]
    ELSE params

\* error-handler.ts validateRequired: the first required field that is
\* undefined or null, <<>> when there is none
validateRequired(params, required) ==
    LET missing == { i \in DOMAIN required :
                        params[required[i]] = Undefined \/ params[required[i]] = Null }
    IN  IF missing = {} THEN <<>>
        ELSE << required[CHOOSE i \in missing : \A j \in missing : i <= j] >>

\* BaseTool.validateParams: the parsed data, or the error it throws (data is
\* then the unparsed input, all that a caller ignoring the error would hold)
validateParams(tool, params) ==
    LET result == safeParseAsync(tool.inputSchema, params)
    IN  IF ~result.success
        THEN [ threw |-> TRUE, data |-> params,
               error |-> [ class |-> "Error", path |-> result.path,
                           message |-> result.message ] ]
        ELSE IF validateRequired(result.data, tool.requiredParams) # <<>>
        THEN [ threw |-> TRUE, data |-> params,
               error |-> [ class |-> "ValidationError",
                           field |-> validateRequired(result.data, tool.requiredParams)[1] ] ]
        ELSE [ threw |-> FALSE, data |-> result.data ]

\* String(value), `${value}`
ToStringChars(value) ==
    CASE value.t = "str" -> value.s
      [] value.t = "num" -> Digits(value.n)
      [] value.t = "null" -> <<"n", "u", "l", "l">>
      [] OTHER -> <<"u", "n", "d", "e", "f", "i", "n", "e", "d">>

\* config.endpoint(validatedParams)
Endpoint(tool, params) ==
    CASE tool.name = network_device_remove ->
            <<"/", "n", "e", "t", "w", "o", "r", "k", "s", "/">>
            \o ToStringChars(params[K_networkId])
            \o <<"/", "d", "e", "v", "i", "c", "e", "s", "/", "r", "e", "m", "o", "v", "e">>
      [] tool.name = network_clients_list ->
            <<"/", "n", "e", "t", "w", "o", "r", "k", "s", "/">>
            \o ToStringChars(params[K_networkId]) \o <<"/", "c", "l", "i", "e", "n", "t", "s">>
      [] tool.name = device_clients_list ->
            <<"/", "d", "e", "v", "i", "c", "e", "s", "/">>
            \o ToStringChars(params[K_serial]) \o <<"/", "c", "l", "i", "e", "n", "t", "s">>
      [] tool.name = network_traffic_get ->
            <<"/", "n", "e", "t", "w", "o", "r", "k", "s", "/">>
            \o ToStringChars(params[K_networkId])
            \o <<"/", "t", "r", "a", "f", "f", "i", "c">>
      [] OTHER ->
            <<"/", "n", "e", "t", "w", "o", "r", "k", "s", "/">>
            \o ToStringChars(params[K_networkId])

\* endpoint.match(/\{([^}]+)\}/g), each match without its braces
RECURSIVE PathParamMatches(_, _)
PathParamMatches(endpoint, i) ==
    IF i > Len(endpoint) THEN <<>>
    ELSE LET closes == { j \in (i + 1)..Len(endpoint) : endpoint[j] = "}" }
             j == CHOOSE c \in closes : \A d \in closes : c <= d
         IN  IF endpoint[i] = "{" /\ closes # {} /\ j >= i + 2
             THEN <<SubSeq(endpoint, i + 1, j - 1)>> \o PathParamMatches(endpoint, j + 1)
             ELSE PathParamMatches(endpoint, i + 1)

\* BaseTool.separateParams
separateParams(endpoint, params) ==
    LET matches == PathParamMatches(endpoint, 1)
        inParams == { k \in Keys : params[k] # Undefined /\ Includes(matches, k) }
    IN  [ pathParams |-> [k \in Keys |-> IF k \in inParams
                                        THEN Str(ToStringChars(params[k])) ELSE Undefined],
          pathOrder |-> SelectSeq(matches, LAMBDA m : m \in inParams),
          otherParams |-> [k \in Keys |-> IF k \in inParams THEN Undefined ELSE params[k]] ]

\* encodeURIComponent, for the characters of the modelled values
EncodeChar(c) ==
    CASE c = "{" -> <<"%", "7", "B">>
      [] c = "}" -> <<"%", "7", "D">>
      [] c = "/" -> <<"%", "2", "F">>
      [] OTHER -> <<c>>

RECURSIVE encodeURIComponent(_)
encodeURIComponent(s) ==
    IF s = <<>> THEN <<>> ELSE EncodeChar(Head(s)) \o encodeURIComponent(Tail(s))

\* String.prototype.replace(pattern, replacement): the first occurrence only
ReplaceFirst(s, pattern, replacement) ==
    LET at == { i \in 1..(Len(s) - Len(pattern) + 1) :
                   SubSeq(s, i, i + Len(pattern) - 1) = pattern }
    IN  IF at = {} THEN s
        ELSE LET i == CHOOSE a \in at : \A b \in at : a <= b
             IN  SubSeq(s, 1, i - 1) \o replacement
                 \o SubSeq(s, i + Len(pattern), Len(s))

\* BaseTool.replacePathParams, over the entries of pathParams in their order
RECURSIVE replacePathParams(_, _, _)
replacePathParams(endpoint, pathParams, order) ==
    IF order = <<>> THEN endpoint
    ELSE replacePathParams(
             ReplaceFirst(endpoint, <<"{">> \o Head(order) \o <<"}">>,
                          encodeURIComponent(pathParams[Head(order)].s)),
             pathParams, Tail(order))

\* The call of httpClient.get/post/put/delete that execute makes
StandardRequest(tool, validatedParams) ==
    LET endpoint == Endpoint(tool, validatedParams)
        sep == separateParams(endpoint, validatedParams)
    IN  [ method |-> tool.method,
          url |-> replacePathParams(endpoint, sep.pathParams, sep.pathOrder),
          params |-> sep.otherParams ]

\* ---- errors ----
\* new MerakiAPIError(message, statusCode, details); the message is the
\* upstream's or the transport's text and is left out
MerakiAPIError(statusCode, details) ==
    [class |-> "MerakiAPIError", statusCode |-> statusCode, details |-> details]

\* MerakiAPIError.toMcpError: the status to error code switch
StatusErrorCode(statusCode) ==
    CASE statusCode = 400 -> "InvalidParams"
      [] statusCode \in {401, 403} -> "InvalidRequest"
      [] statusCode = 404 -> "MethodNotFound"
      [] OTHER -> "InternalError"

\* error-handler.ts handleError: the McpError it throws
handleError(error) ==
    CASE error.class = "McpError" -> error
      [] error.class = "MerakiAPIError" ->
            [ class |-> "McpError", code |-> StatusErrorCode(error.statusCode),
              data |-> [statusCode |-> error.statusCode, details |-> error.details] ]
      [] error.class = "ValidationError" ->
            [ class |-> "McpError", code |-> "InvalidParams",
              data |-> [field |-> error.field] ]
      [] OTHER ->
            [ class |-> "McpError", code |-> "InternalError",
              data |-> [originalError |-> "Error"], path |-> error.path,
              message |-> error.message ]

\* A slip that would leave an error thrown by validateParams uncaught by the
\* pipeline (a validateParams call that is not awaited).
Caught_never(outcome) == FALSE

\* try { ... await this.validateParams(...) ... } catch (error) { handleError }
Caught(outcome) == outcome.threw

\* ---- the composite executor as execute sees it ----
K_params == <<"p", "a", "r", "a", "m", "s">>

\* the listing call of organization_security_events.customExecutor
ListingRequest(params) ==
    [ method |-> "GET",
      url |-> <<"/", "o", "r", "g", "a", "n", "i", "z", "a", "t", "i", "o", "n", "s", "/">>
              \o ToStringChars(params[K_organizationId])
              \o <<"/", "n", "e", "t", "w", "o", "r", "k", "s">>,
      params |-> NoParams ]

\* eventParams of one child (productType and includedEventTypes are constant
\* and left out), passed to get as { params: eventParams }
ChildRequest(params, network) ==
    [ method |-> "GET",
      url |-> <<"/", "n", "e", "t", "w", "o", "r", "k", "s", "/">> \o <<network.id>>
              \o <<"/", "e", "v", "e", "n", "t", "s">>,
      params |-> [ k \in {K_params} |->
                    [ NoParams EXCEPT
                        ![K_networkId] = Str(<<network.id>>),
                        ![K_perPage] = IF Falsy(params[K_perPage]) THEN Num(100)
                                       ELSE params[K_perPage],
                        ![K_t0] = IF Falsy(params[K_t0]) THEN Undefined ELSE params[K_t0],
                        ![K_timespan] = IF Falsy(params[K_timespan]) THEN Undefined
                                        ELSE params[K_timespan] ] ] ]

\* ---- inputs ----
MaxExecNetworks == 2   \* the listing returns 0..MaxExecNetworks networks

IdPool == { Undefined, Null, Num(7), Str(<<"N", "1">>),
            Str(<<"{", "s", "e", "r", "i", "a", "l", "}">>) }
PerPagePoolRaw == { Undefined, Num(2), Num(50), Num(5000), Str(<<"5">>),
                    Str(<<"a", "b", "c">>) }
TimespanPool == { Undefined, Num(10), Num(3600), Str(<<"3", "6", "0", "0">>),
                  Str(<<"a", "b", "c">>) }
T0Pool == { Undefined, Str(IsoDate(1)),
            Str(IsoDate(1) \o <<"T", "0", "0", ":", "0", "0", ":", "0", "0", "Z">>) }

ValuePool(k) ==
    CASE k = K_perPage -> PerPagePoolRaw
      [] k = K_timespan -> TimespanPool
      [] k = K_t0 -> T0Pool
      [] OTHER -> IdPool

KeyPool(tool, k) ==
    IF ShapeHas(tool.inputSchema, k) \/ k = K_perPage THEN ValuePool(k) ELSE {Undefined}

\* what a caller sends: values for the keys of the tool's schema and perPage
CallerParams(tool) ==
    { [ k \in Keys |->
          CASE k = K_networkId -> n [] k = K_organizationId -> o [] k = K_serial -> s
            [] k = K_perPage -> pp [] k = K_timespan -> ts [] OTHER -> t0 ] :
        n \in KeyPool(tool, K_networkId), o \in KeyPool(tool, K_organizationId),
        s \in KeyPool(tool, K_serial), pp \in KeyPool(tool, K_perPage),
        ts \in KeyPool(tool, K_timespan), t0 \in KeyPool(tool, K_t0) }

DefaultParamsPool == { <<>>, DEFAULT_PARAMS, TWO_PATTERNS, EXACT_FIRST }

NetworkIds == <<"a", "b", "c", "d">>
NetworkLists ==
    { [i \in 1..n |-> Network(NetworkIds[i])] : n \in 0..MaxExecNetworks }

ResponsePool == { Arr(<<>>), Items(2), Items(51) }
UpstreamFailures == { 0, 400, 404, 429, 500 }

\* ---- the pipeline ----
NoTool == [name |-> <<>>, method |-> "none"]
NoStages == [validation |-> "none"]
NoOutcome == [class |-> "none"]

\* ---- the HTTP client as execute sees it ----
\* two keys that pass validateApiKey (40 hexadecimal characters each)
KEY_A == "0a0a0a0a0a0a0a0a0a0a0a0a0a0a0a0a0a0a0a0a"
KEY_B == "b1b1b1b1b1b1b1b1b1b1b1b1b1b1b1b1b1b1b1b1"
ApiKeys == { KEY_A, KEY_B }

\* settings.ts getAuthHeaders
getAuthHeaders(key) ==
    [ Authorization |-> <<"Bearer", key>>, ContentType |-> "application/json",
      Accept |-> "application/json", UserAgent |-> "cisco-meraki-mcp/0.1.0" ]

\* the request config axios works on: the instance defaults of the
\* constructor merged with what get/post/put/delete pass
AxiosConfig(request, key) ==
    [ method |-> request.method, url |-> request.url, params |-> request.params,
      headers |-> getAuthHeaders(key), timeout |-> 30000 ]

\* an AxiosError keeps the config of the request that failed
AxiosError(code, config) == [class |-> "AxiosError", code |-> code, config |-> config]

\* the upstream's error body (response.data of a non-success response)
ErrorBody == Obj(<<Entry("errors", Arr(<<Str(<<"e">>)>>))>>)

\* handleErrorResponse and executeRequest: a non-success status throws with
\* the status and the response body
UpstreamError(statusCode) == MerakiAPIError(statusCode, ErrorBody)

\* handleNetworkError: a timeout and a failed lookup throw with null details,
\* any other failure throws with the AxiosError itself as details
NetworkCodes == { "ECONNABORTED", "ENOTFOUND", "ECONNRESET" }
handleNetworkError(error) ==
    IF error.code \in {"ECONNABORTED", "ENOTFOUND"}
    THEN MerakiAPIError(0, Null)
    ELSE MerakiAPIError(0, error)

\* what a request through the client can reject with
ClientFailures(request, key) ==
    { UpstreamError(statusCode) : statusCode \in UpstreamFailures \ {0} }
    \cup { handleNetworkError(AxiosError(code, AxiosConfig(request, key))) :
             code \in NetworkCodes }

\* the request interceptor: console.error(`[Meraki API] ${METHOD} ${url}`)
RequestLog(config) == <<"[Meraki API]", config.method, config.url>>

\* the lines the request interceptor writes for the requests made so far,
\* were the client's key the given one
ConsoleLog(key) == [ i \in DOMAIN exeHttp |-> RequestLog(AxiosConfig(exeHttp[i], key)) ]

ExeIdle ==
    /\ exePc = "idle" /\ exeTool = NoTool /\ exeParams = NoStages
    /\ exeHttp = <<>> /\ exeOutcome = NoOutcome /\ exeDelivered = NoOutcome

ExeInit == ExeIdle /\ apiKey \in ApiKeys

\* params.perPage as the executor's `if (params.perPage)` reads it, 0: not given
PerPageOf(params) == IF params[K_perPage].t = "num" THEN params[K_perPage].n ELSE 0

\* execute up to its first await: default merge, coercion, transform, and the
\* call of validateParams
Execute ==
    /\ exePc = "idle"
    /\ ToolFrame
    /\ \E tool \in ToolConfigs, defaultParams \in DefaultParamsPool :
         \E params \in CallerParams(tool) :
            LET paramsWithDefaults ==
                    Assign(getDefaultParams(defaultParams, tool.name), params)
                coercedParams == coerceParameterTypes(tool.inputSchema, paramsWithDefaults)
                transformedParams == transformParams(tool, coercedParams)
            IN  /\ exeTool' = tool
                /\ exeParams' = [ validation |-> "pending", raw |-> params,
                                  defaults |-> defaultParams,
                                  withDefaults |-> paramsWithDefaults,
                                  coerced |-> coercedParams,
                                  transformed |-> transformedParams,
                                  validated |-> NoParams ]
    /\ exePc' = "validating"
    /\ UNCHANGED <<exeHttp, exeOutcome>>

\* A slip that would validate the parameters as they are before the
\* transform hook.
ValidationInput_coerced(stages) == stages.coerced

\* validateParams(transformedParams)
ValidationInput(stages) == stages.transformed

Validated(outcome) ==
    [ exeParams EXCEPT !.validation = IF outcome.threw THEN "failed" ELSE "passed",
                       !.validated = outcome.data ]

\* validateParams throws: the catch block hands the error to handleError
ValidationThrows ==
    /\ exePc = "validating"
    /\ ToolFrame
    /\ LET outcome == validateParams(exeTool, ValidationInput(exeParams))
       IN  /\ Caught(outcome)
           /\ exeOutcome' = handleError(outcome.error)
           /\ exeParams' = Validated(outcome)
    /\ exePc' = "failed"
    /\ UNCHANGED <<exeTool, exeHttp>>

\* validation passed, standard method: the endpoint is built and the request
\* handed to the HTTP client
DispatchStandard ==
    /\ exePc = "validating"
    /\ ToolFrame
    /\ exeTool.method # "COMPOSITE"
    /\ LET outcome == validateParams(exeTool, ValidationInput(exeParams))
       IN  /\ ~Caught(outcome)
           /\ exeParams' = Validated(outcome)
           /\ exeHttp' = Append(exeHttp, StandardRequest(exeTool, outcome.data))
    /\ exePc' = "http"
    /\ UNCHANGED <<exeTool, exeOutcome>>

\* validation passed, composite: customExecutor starts with the listing call
DispatchComposite ==
    /\ exePc = "validating"
    /\ ToolFrame
    /\ exeTool.method = "COMPOSITE"
    /\ LET outcome == validateParams(exeTool, ValidationInput(exeParams))
       IN  /\ ~Caught(outcome)
           /\ exeParams' = Validated(outcome)
           /\ exeHttp' = Append(exeHttp, ListingRequest(outcome.data))
    /\ exePc' = "listing"
    /\ UNCHANGED <<exeTool, exeOutcome>>

Returned(value) == [class |-> "result", value |-> value]

\* the request resolves: transformResponse (none configured), then bounding
HttpResolves ==
    /\ exePc = "http"
    /\ ToolFrame
    /\ \E data \in ResponsePool :
          exeOutcome' = Returned(applyResponseOptimization(exeTool.name, data, DefaultLimits))
    /\ exePc' = "returned"
    /\ UNCHANGED <<exeTool, exeParams, exeHttp>>

\* the request rejects with a MerakiAPIError
HttpRejects ==
    /\ exePc = "http"
    /\ ToolFrame
    /\ \E error \in ClientFailures(exeHttp[Len(exeHttp)], apiKey) :
          exeOutcome' = handleError(error)
    /\ exePc' = "failed"
    /\ UNCHANGED <<exeTool, exeParams, exeHttp>>

\* the executor after the child at position i - 1: the next child's request,
\* or sort, paginate, return and bounding
ExeAfterChild(nets, events, i) ==
    IF i > Len(nets)
    THEN /\ exePc' = "returned"
         /\ exeOutcome' = Returned(CompositeReturn(events, PerPageOf(exeParams.validated)))
         /\ UNCHANGED exeHttp
    ELSE /\ exePc' = "child"
         /\ exeOutcome' = [class |-> "pending", networks |-> nets, next |-> i,
                           events |-> events]
         /\ exeHttp' = Append(exeHttp, ChildRequest(exeParams.validated, nets[i]))

ExeListingResolves ==
    /\ exePc = "listing"
    /\ ToolFrame
    /\ \E nets \in NetworkLists : ExeAfterChild(nets, <<>>, 1)
    /\ UNCHANGED <<exeTool, exeParams>>

ExeListingRejects ==
    /\ exePc = "listing"
    /\ ToolFrame
    /\ \E error \in ClientFailures(exeHttp[Len(exeHttp)], apiKey) :
          exeOutcome' = handleError(error)
    /\ exePc' = "failed"
    /\ UNCHANGED <<exeTool, exeParams, exeHttp>>

ExeChildResolves ==
    /\ exePc = "child"
    /\ ToolFrame
    /\ \E resp \in { ChildNoEvents, ChildEvents(<<UpstreamEvent(1, 1)>>) } :
          ExeAfterChild(exeOutcome.networks,
                        exeOutcome.events \o
                            EventsWithNetwork(resp, exeOutcome.networks[exeOutcome.next]),
                        exeOutcome.next + 1)
    /\ UNCHANGED <<exeTool, exeParams>>

\* the child's get rejects: catch, continue
ExeChildRejects ==
    /\ exePc = "child"
    /\ ToolFrame
    /\ ExeAfterChild(exeOutcome.networks, exeOutcome.events, exeOutcome.next + 1)
    /\ UNCHANGED <<exeTool, exeParams>>

\* ---- the call-tool request handler around execute ----
\* A slip that would hand the data of the caught error on to the caller.
CallToolCatch_forwarding(name, error) ==
    [ class |-> "McpError", code |-> "InternalError",
      message |-> [ text |-> "Failed to execute tool", of |-> error.class ],
      data |-> error.data ]

\* the catch block of the handler: a MerakiAPIError keeps its status code,
\* anything else (the McpError that BaseTool.execute throws included) becomes
\* an InternalError whose only trace of the cause is the text of its message
CallToolCatch(name, error) ==
    IF error.class = "MerakiAPIError"
    THEN [ class |-> "McpError", code |-> "InternalError",
           message |-> [ text |-> "Meraki API Error", of |-> "MerakiAPIError" ],
           data |-> [ statusCode |-> error.statusCode ] ]
    ELSE [ class |-> "McpError", code |-> "InternalError",
           message |-> [ text |-> "Failed to execute tool", of |-> error.class ],
           data |-> Undefined ]

\* handler.execute resolved: the result goes out as one text content item
CallToolReturns ==
    /\ exePc = "returned" /\ exeDelivered = NoOutcome
    /\ ExeFrame
    /\ exeDelivered' = [ class |-> "content", type |-> "text", of |-> exeOutcome.value ]
    /\ UNCHANGED <<exePc, exeTool, exeParams, exeHttp, exeOutcome, apiKey>>

\* handler.execute rejected with what BaseTool.execute threw
CallToolCatches ==
    /\ exePc = "failed" /\ exeDelivered = NoOutcome
    /\ ExeFrame
    /\ exeDelivered' = CallToolCatch(exeTool.name, exeOutcome)
    /\ UNCHANGED <<exePc, exeTool, exeParams, exeHttp, exeOutcome, apiKey>>

ExeNext ==
    \/ Execute \/ ValidationThrows \/ DispatchStandard \/ DispatchComposite
    \/ HttpResolves \/ HttpRejects
    \/ ExeListingResolves \/ ExeListingRejects \/ ExeChildResolves \/ ExeChildRejects
    \/ CallToolReturns \/ CallToolCatches

(***************************************************************************)
(* MerakiHttpClient: PQueue admission, axios-rate-limit, retries           *)
(*                                                                         *)
(* Time is counted in ticks, TicksPerSecond of them to a second.  Events   *)
(* of one tick happen in any order.  Callers submit calls at any tick.     *)
(***************************************************************************)
RATE_LIMIT_PER_SECOND == 5
MAX_RETRIES == 3
INITIAL_BACKOFF_MS == 1000

MaxCalls == 7          \* calls submitted in a run
MaxTime == 3           \* the clock stops at tick MaxTime
MaxLimited == 1        \* calls of a run that the upstream answers 429
TicksPerSecond == 2

Off == -1              \* no timer armed

MsToTicks(ms) == (ms * TicksPerSecond) \div 1000

\* Calls carry no identity.  A call is a record of its retryCount and of the
\* attempts sent for it; the admitted calls that are in flight or in backoff
\* form the bag `live`, those waiting in axios-rate-limit the sequence
\* `axQueue`, and `queued` counts the jobs waiting in PQueue.
NewCall == [retryCount |-> 0, attempts |-> 0, wake |-> Off]
InFlight(call) ==
    [state |-> "flight", retryCount |-> call.retryCount,
     attempts |-> call.attempts + 1, wake |-> Off]
One(call) == SetToBag({call})

\* The client's state as one record, for the library routines below;
\* `settled` is the call that the current step settles, if it does, and
\* `delayed` the backoff wait that the current step starts, if it does.
Cur ==
    [ queued |-> queued, live |-> live, axQueue |-> axQueue,
      settled |-> [state |-> "none"], delayed |-> [status |-> 0],
      limited |-> limited,
      intervalCount |-> intervalCount, intervalEnd |-> intervalEnd,
      timeslotRequests |-> timeslotRequests,
      timeslotEnd |-> timeslotEnd, sent |-> sent ]

Becomes(m) ==
    /\ queued' = m.queued /\ live' = m.live /\ axQueue' = m.axQueue
    /\ settled' = m.settled /\ delayed' = m.delayed /\ limited' = m.limited
    /\ intervalCount' = m.intervalCount
    /\ intervalEnd' = m.intervalEnd
    /\ timeslotRequests' = m.timeslotRequests /\ timeslotEnd' = m.timeslotEnd
    /\ sent' = m.sent

\* ---- axios-rate-limit { maxRequests: 5, perMilliseconds: 1000 } ----
\* AxiosRateLimit.shift: release the head of the queue unless the timeslot is
\* full; the first release of a timeslot arms the timer that ends it.
shift(m, t) ==
    IF m.axQueue = <<>> \/ m.timeslotRequests = RATE_LIMIT_PER_SECOND THEN m
    ELSE [ m EXCEPT !.axQueue = Tail(@),
                    !.timeslotEnd = IF m.timeslotRequests = 0
                                    THEN t + MsToTicks(1000) ELSE @,
                    !.timeslotRequests = @ + 1,
                    !.live = @ (+) One(InFlight(Head(m.axQueue))),
                    !.sent[TicksPerSecond] = @ + 1 ]

\* AxiosRateLimit.push: queue the request and arm setTimeout(shift, 0).  That
\* timer runs here, with the push: it is due at once, shift releases the head
\* of the queue whichever caller runs it, and nothing but pushes and events of
\* the same instant can come between the two.
push(m, call) == shift([m EXCEPT !.axQueue = Append(@, call)], now)

\* A slip that would give a call's slot back for the time of a backoff wait
\* (the retry queued as a job of its own).
Pending_attempts(m) ==
    Len(m.axQueue)
    + BagCardinality([ call \in { c \in BagToSet(m.live) : c.state = "flight" } |->
                          CopiesIn(call, m.live) ])

\* ---- PQueue { concurrency: 5, interval: 1000, intervalCap: 5 } ----
\* #pending: jobs started and not settled (a job is one whole executeRequest,
\* its backoff waits and retries included)
Pending(m) == Len(m.axQueue) + BagCardinality(m.live)

\* PQueue.#tryToStartAnother: with an empty queue the interval is cleared;
\* else the head job starts if the interval and the concurrency allow it
\* (the job runs executeRequest, whose client.request pushes the request) and
\* the interval is armed if it is not.
CanStart(m) ==
    /\ m.queued > 0
    /\ m.intervalCount < RATE_LIMIT_PER_SECOND
    /\ Pending(m) < RATE_LIMIT_PER_SECOND

tryToStartAnother(m, t) ==
    IF m.queued = 0 THEN [m EXCEPT !.intervalEnd = Off]
    ELSE IF CanStart(m)
    THEN push([ m EXCEPT !.queued = @ - 1,
                         !.intervalCount = @ + 1,
                         !.intervalEnd = IF @ = Off THEN t + MsToTicks(1000) ELSE @ ],
              NewCall)
    ELSE m

\* PQueue.#processQueue: while (this.#tryToStartAnother()) {}
RECURSIVE processQueue(_, _)
processQueue(m, t) ==
    IF CanStart(m) THEN processQueue(tryToStartAnother(m, t), t)
    ELSE tryToStartAnother(m, t)

\* the job's finally block, PQueue.#next, once a call has settled
next(m, t) == tryToStartAnother(m, t)

\* ---- retry delay ----
NoHeader == <<>>

\* parseInt(s, 10) on a header value: its leading digits, NaN without any
ParseInt(s) ==
    LET digits == { n \in 0..Len(s) : \A i \in 1..n : IsDigit(s[i]) }
        n == CHOOSE k \in digits : \A j \in digits : j <= k
    IN  IF n = 0 THEN NaN ELSE Num(DecimalValue(SubSeq(s, 1, n)))

\* A slip that would hand the seconds of the header to delay() as they are.
getRetryAfter_seconds(retryAfter) ==
    IF retryAfter # NoHeader /\ ParseInt(retryAfter) # NaN
    THEN ParseInt(retryAfter).n
    ELSE INITIAL_BACKOFF_MS

\* MerakiHttpClient.getRetryAfter, in milliseconds
getRetryAfter(retryAfter) ==
    IF retryAfter # NoHeader /\ ParseInt(retryAfter) # NaN
    THEN ParseInt(retryAfter).n * 1000
    ELSE INITIAL_BACKOFF_MS

\* A slip that would retry whatever the count.
MayRetry_always(count) == TRUE

\* A slip that would retry once more.
MayRetry_inclusive(count) == count <= MAX_RETRIES

\* executeRequest: retryCount < MAX_RETRIES
MayRetry(count) == count < MAX_RETRIES

RetryAfterPool == { NoHeader, <<"0">>, <<"1">>, <<"2">>, <<"W", "e", "d">> }
ErrorStatuses == { 404, 500 }

\* ---- the client ----
NoneSettled == [state |-> "none"]
NoDelay == [status |-> 0]

DspInit ==
    /\ now = 0 /\ submitted = 0 /\ queued = 0
    /\ live = EmptyBag /\ axQueue = <<>> /\ settled = NoneSettled
    /\ delayed = NoDelay
    /\ limited = 0
    /\ intervalCount = 0 /\ intervalEnd = Off
    /\ timeslotRequests = 0 /\ timeslotEnd = Off
    /\ sent = [i \in 1..TicksPerSecond |-> 0]

\* get, post, put and delete alike:
\* this.queue.add(() => this.executeRequest({ method, url, ... }))
Add ==
    /\ submitted < MaxCalls
    /\ DspFrame
    /\ submitted' = submitted + 1
    /\ Becomes(tryToStartAnother([Cur EXCEPT !.queued = @ + 1], now))
    /\ UNCHANGED now

\* the timer of the timeslot: timeslotRequests = 0, shift()
TimeslotEnds ==
    /\ timeslotEnd = now
    /\ DspFrame
    /\ Becomes(shift([Cur EXCEPT !.timeslotRequests = 0, !.timeslotEnd = Off], now))
    /\ UNCHANGED <<now, submitted>>

\* PQueue.#onInterval
OnInterval ==
    /\ intervalEnd = now
    /\ DspFrame
    /\ Becomes(processQueue(
           [ Cur EXCEPT !.intervalEnd = IF intervalCount = 0 /\ Pending(Cur) = 0
                                        THEN Off ELSE now + MsToTicks(1000),
                        !.intervalCount = 0 ],
           now))
    /\ UNCHANGED <<now, submitted>>

\* a call settles: its job's promise resolves or rejects, then #next
Settled(m, call, state, status) ==
    next([ m EXCEPT !.live = @ (-) One(call),
                    !.settled = [ state |-> state, status |-> status,
                                  attempts |-> call.attempts,
                                  only429 |-> status = 429 ] ],
         now)

Flights == { call \in BagToSet(live) : call.state = "flight" }

\* A 2xx response: handleResponse shifts, executeRequest returns the data.
ResponseOk ==
    /\ DspFrame
    /\ \E call \in Flights : Becomes(Settled(shift(Cur, now), call, "ok", 200))
    /\ UNCHANGED <<now, submitted>>

\* the upstream starts answering 429 to a call
Limit(m, call) ==
    [m EXCEPT !.limited = IF call.retryCount = 0 THEN @ + 1 ELSE @]

\* A slip that would take a 5xx answer down the retry path.
Retryable_serverErrors(status) == status = 429 \/ status >= 500

\* A slip that would take every 4xx answer down the retry path.
Retryable_clientErrors(status) == status >= 400 /\ status < 500

\* handleErrorResponse: if (response.status === 429) return response, else
\* throw; executeRequest: response.status === 429 && ...
Retryable(status) == status = 429

\* An answer of status >= 400 to a call in flight: executeRequest awaits
\* delay(getRetryAfter(response)) and calls itself with retryCount + 1, or
\* the call fails with MerakiAPIError(status).
Answered(m, call, status, retryAfter) ==
    IF Retryable(status) /\ MayRetry(call.retryCount)
    THEN LET until == now + MsToTicks(getRetryAfter(retryAfter))
         IN  [ m EXCEPT
                 !.live = (@ (-) One(call)) (+)
                          One([call EXCEPT !.state = "backoff", !.wake = until]),
                 !.delayed = [ status |-> status, hint |-> retryAfter,
                               from |-> now, until |-> until ] ]
    ELSE Settled(m, call, "failed", status)

\* A 429 response: handleResponse shifts, handleErrorResponse returns the
\* response to executeRequest.
Response429 ==
    /\ DspFrame
    /\ \E call \in Flights, retryAfter \in RetryAfterPool :
          /\ call.retryCount > 0 \/ limited < MaxLimited
          /\ Becomes(Answered(Limit(shift(Cur, now), call), call, 429, retryAfter))
    /\ UNCHANGED <<now, submitted>>

\* Any other status >= 400: handleResponse shifts, the response interceptor
\* throws MerakiAPIError(status), executeRequest rethrows it.
ResponseError ==
    /\ DspFrame
    /\ \E call \in Flights, status \in ErrorStatuses :
          Becomes(Answered(shift(Cur, now), call, status, NoHeader))
    /\ UNCHANGED <<now, submitted>>

\* No response (timeout, connection failure): handleNetworkError throws
\* MerakiAPIError with status 0; axios-rate-limit does not shift.
NetworkError ==
    /\ DspFrame
    /\ \E call \in Flights : Becomes(Settled(Cur, call, "failed", 0))
    /\ UNCHANGED <<now, submitted>>

\* delay(retryAfter) is over: executeRequest(config, retryCount + 1)
Wake ==
    /\ DspFrame
    /\ \E call \in BagToSet(live) :
          /\ call.state = "backoff"
          /\ call.wake = now
          /\ Becomes(push([Cur EXCEPT !.live = @ (-) One(call)],
                          [retryCount |-> call.retryCount + 1,
                           attempts |-> call.attempts, wake |-> call.wake]))
    /\ UNCHANGED <<now, submitted>>

\* Time passes once every timer due now has run.
Tick ==
    /\ now < MaxTime
    /\ timeslotEnd # now /\ intervalEnd # now
    /\ \A call \in BagToSet(live) : call.state = "backoff" => call.wake # now
    /\ DspFrame
    /\ now' = now + 1
    /\ sent' = Tail(sent) \o <<0>>
    /\ settled' = NoneSettled /\ delayed' = NoDelay
    /\ UNCHANGED <<submitted, queued, live, axQueue, limited, intervalCount,
                   intervalEnd, timeslotRequests, timeslotEnd>>

DspNext ==
    \/ Add
    \/ TimeslotEnds \/ OnInterval
    \/ ResponseOk \/ Response429 \/ ResponseError \/ NetworkError
    \/ Wake \/ Tick

\* ---- a run of few calls in which every attempt is answered ----
MaxFairCalls == 2      \* calls submitted in such a run

AddFew == submitted < MaxFairCalls /\ Add

\* what the event loop and the upstream do: timers run when due, every
\* attempt sent gets a response or fails, time passes
Served ==
    \/ TimeslotEnds \/ OnInterval
    \/ ResponseOk \/ Response429 \/ ResponseError \/ NetworkError
    \/ Wake \/ Tick

FairNext == AddFew \/ Served

\* ---- a burst in which the upstream may answer 429 to every call ----
MaxBurstCalls == 6     \* calls submitted in such a run

AddBurst == submitted < MaxBurstCalls /\ Add

Response429Any ==
    /\ DspFrame
    /\ \E call \in Flights :
          Becomes(Answered(shift(Cur, now), call, 429, NoHeader))
    /\ UNCHANGED <<now, submitted>>

BurstNext ==
    \/ AddBurst
    \/ TimeslotEnds \/ OnInterval
    \/ ResponseOk \/ Response429Any
    \/ Wake \/ Tick

(***************************************************************************)
(* Claims about response bounding                                          *)
(***************************************************************************)
RECURSIVE NoLongSequence(_, _)
NoLongSequence(v, max) ==
    CASE v.t = "arr" -> /\ Len(v.xs) <= max
                        /\ \A i \in DOMAIN v.xs : NoLongSequence(v.xs[i], max)
      [] v.t = "obj" -> \A i \in DOMAIN v.fs : NoLongSequence(v.fs[i].v, max)
      [] OTHER -> TRUE

\* C6: every payload the engine's bounding step returns has no sequence longer
\* than maxArrayLength and, with summarization enabled, a serialized size of at
\* most maxResponseSize.
C6_CeilingsRespected ==
    (bndOut.op = "applyResponseOptimization" /\ bndOut.out # Thrown) =>
        /\ NoLongSequence(bndOut.out, bndOut.limits.maxArrayLength)
        /\ (bndOut.limits.summarizeArrays =>
                JSONStringifyLength(bndOut.out) <= bndOut.limits.maxResponseSize)

\* C7: bounding is idempotent, bound(bound(x)) = bound(x), for optimizeResponse
\* and for applyResponseOptimization.
C7_BoundingIdempotent ==
    (bndOut.op # "none" /\ bndOut.again) => bndOut.out2 = bndOut.out

\* C7 witness: a payload that bounding changed has been bounded twice.
C7_Witness ==
    /\ bndOut.op = "optimizeResponse"
    /\ bndOut.again
    /\ bndOut.out # bndOut.in
    /\ bndOut.in.t = "arr"
    /\ Len(bndOut.in.xs) > bndOut.options.maxArrayLength

\* Values that structural bounding returns as they are.
Unbounded(v) == v.t \in {"num", "bool", "null"}

\* C8 (as amended): a sequence longer than M yields {data, _meta} where data
\* holds the bounded forms of the first M items (the items themselves where
\* bounding leaves them alone) and _meta is {totalCount = original length,
\* returnedCount = M, truncated = true}; a sequence of at most M items yields a
\* sequence of the same length, item by item the bounded form of the input,
\* with no metadata.
C8_SequenceBounding ==
    (bndOut.op = "optimizeResponse" /\ bndOut.in.t = "arr") =>
        LET xs == bndOut.in.xs
            M == bndOut.options.maxArrayLength
            out == bndOut.out
            itemsOk(ys, n) ==
                /\ Len(ys) = n
                /\ \A i \in 1..n :
                      /\ ys[i] = optimizeResponse(xs[i], bndOut.options)
                      /\ Unbounded(xs[i]) => ys[i] = xs[i]
        IN  IF Len(xs) > M
            THEN /\ out.t = "obj"
                 /\ Len(out.fs) = 2
                 /\ out.fs[1].k = "data" /\ out.fs[2].k = "_meta"
                 /\ out.fs[1].v.t = "arr"
                 /\ itemsOk(out.fs[1].v.xs, M)
                 /\ out.fs[2].v = Obj(<< Entry("totalCount", Num(Len(xs))),
                                         Entry("returnedCount", Num(M)),
                                         Entry("truncated", Bool(TRUE)) >>)
            ELSE /\ out.t = "arr"
                 /\ itemsOk(out.xs, Len(xs))

\* C8 witness: a sequence longer than M whose items bounding changes.
C8_Witness ==
    /\ bndOut.op = "optimizeResponse"
    /\ bndOut.in.t = "arr"
    /\ Len(bndOut.in.xs) > bndOut.options.maxArrayLength
    /\ bndOut.out.t = "obj"
    /\ bndOut.out.fs[1].v.xs # SubSeq(bndOut.in.xs, 1, bndOut.options.maxArrayLength)

\* C8 as stated: the first M items themselves, and output equal to the input
\* for a sequence of at most M items.
C8_AsStated ==
    (bndOut.op = "optimizeResponse" /\ bndOut.in.t = "arr") =>
        LET xs == bndOut.in.xs
            M == bndOut.options.maxArrayLength
            out == bndOut.out
        IN  IF Len(xs) > M
            THEN out = Obj(<< Entry("data", Arr(SubSeq(xs, 1, M))),
                              Entry("_meta",
                                    Obj(<< Entry("totalCount", Num(Len(xs))),
                                           Entry("returnedCount", Num(M)),
                                           Entry("truncated", Bool(TRUE)) >>)) >>)
            ELSE out = bndOut.in

\* the annotations of a bounded payload: the truncation metadata of
\* optimizeResponse (_meta) or of applyResponseOptimization (meta), and the
\* summary form of createSummaryResponse
CarriesBounding(payload) == HasKey(payload, "_meta") \/ HasKey(payload, "meta")
CarriesSummary(payload) ==
    HasKey(payload, "totalCount") /\ HasKey(payload, "firstItems")
        /\ HasKey(payload, "summary")

\* C21: formatToolResponse returns a payload that already carries a bounding
\* annotation or a summary annotation unchanged: its result is the JSON text
\* of the payload as it came in.
C21_AnnotatedUnchanged ==
    (fmtOut.op # "none" /\ (CarriesBounding(fmtOut.in) \/ CarriesSummary(fmtOut.in))) =>
        fmtOut.out = JSONStringify(fmtOut.in)

\* C22: when applyResponseOptimization receives an array whose serialized
\* size exceeds maxResponseSize (summarization enabled), its result is the
\* summary form and not the truncated form, whatever the tool's name.
C22_SummaryOverTruncation ==
    ( /\ bndOut.op = "applyResponseOptimization"
      /\ bndOut.in.t = "arr"
      /\ bndOut.limits.summarizeArrays
      /\ JSONStringifyLength(bndOut.in) > bndOut.limits.maxResponseSize ) =>
        /\ CarriesSummary(bndOut.out)
        /\ ~CarriesBounding(bndOut.out)

\* the values of a field over the items that have it
ValuesOf(xs, field) ==
    { Field(xs[i], field) : i \in { j \in DOMAIN xs : HasKey(xs[j], field) } }

\* C23: createSummaryResponse on more than 50 items returns totalCount = the
\* length, firstItems = the first 5 items as they are and, for every
\* requested field that some item has, uniqueCount = the number of distinct
\* values of the field and samples = at most 5 distinct values that occur in
\* the data; anything else is returned unchanged.
C23_SummaryContents ==
    bndOut.op = "createSummaryResponse" =>
        LET in == bndOut.in
            out == bndOut.out
        IN  IF in.t = "arr" /\ Len(in.xs) > SummaryThreshold
            THEN /\ CarriesSummary(out)
                 /\ Field(out, "totalCount") = Num(Len(in.xs))
                 /\ Field(out, "firstItems") = Arr(SubSeq(in.xs, 1, SummaryFirstItems))
                 /\ \A i \in DOMAIN bndOut.fields :
                      LET field == bndOut.fields[i]
                          values == ValuesOf(in.xs, field)
                      IN  values # {} =>
                            /\ HasKey(Field(out, "summary"), field)
                            /\ LET facet == Field(Field(out, "summary"), field)
                                   samples == Field(facet, "samples").xs
                               IN  /\ Field(facet, "uniqueCount") = Num(Cardinality(values))
                                   /\ Len(samples) <= SummarySamples
                                   /\ \A a \in DOMAIN samples : samples[a] \in values
                                   /\ \A a, b \in DOMAIN samples :
                                         a # b => samples[a] # samples[b]
            ELSE out = in

\* out is the input bounded level by level: a sequence longer than max has
\* become {data, _meta} with max items and its own original length, a
\* shorter one has kept its length, and the items that are left and the
\* fields of an object are bounded in the same way.
RECURSIVE BoundedAtEveryLevel(_, _, _)
BoundedAtEveryLevel(in, out, options) ==
    LET max == options.maxArrayLength IN
    CASE in.t = "arr" ->
            IF Len(in.xs) > max
            THEN /\ out.t = "obj"
                 /\ HasKey(out, "data") /\ HasKey(out, "_meta")
                 /\ Field(out, "_meta") = Obj(<< Entry("totalCount", Num(Len(in.xs))),
                                                 Entry("returnedCount", Num(max)),
                                                 Entry("truncated", Bool(TRUE)) >>)
                 /\ Field(out, "data").t = "arr"
                 /\ Len(Field(out, "data").xs) = max
                 /\ \A i \in 1..max :
                       BoundedAtEveryLevel(in.xs[i], Field(out, "data").xs[i], options)
            ELSE /\ out.t = "arr"
                 /\ Len(out.xs) = Len(in.xs)
                 /\ \A i \in DOMAIN in.xs :
                       BoundedAtEveryLevel(in.xs[i], out.xs[i], options)
      [] in.t = "obj" ->
            /\ out.t = "obj"
            /\ \A i \in DOMAIN in.fs :
                  (in.fs[i].v.t \in {"arr", "obj"}) =>
                      /\ HasKey(out, in.fs[i].k)
                      /\ BoundedAtEveryLevel(in.fs[i].v, Field(out, in.fs[i].k), options)
      [] OTHER -> TRUE

\* C24: optimizeResponse bounds every nesting level independently: in its
\* output no sequence at any depth has more than maxArrayLength items, and
\* every sequence that was longer (and is still there) carries its own
\* truncation metadata with its own original length.
C24_EveryLevelBounded ==
    bndOut.op = "optimizeResponse" =>
        /\ NoLongSequence(bndOut.out, bndOut.options.maxArrayLength)
        /\ BoundedAtEveryLevel(bndOut.in, bndOut.out, bndOut.options)

\* C24 witness: with maximum 1, a sequence of 2 networks whose first holds a
\* sequence of 3 devices is cut to 1 network (of 2) holding 1 device (of 3).
C24_Witness ==
    /\ bndOut.op = "optimizeResponse"
    /\ bndOut.options.maxArrayLength = 1
    /\ HasKey(bndOut.in, "networks")
    /\ Len(Field(bndOut.in, "networks").xs) = 2
    /\ LET outer == Field(bndOut.out, "networks")
       IN  /\ HasKey(outer, "_meta")
           /\ Field(Field(outer, "_meta"), "totalCount") = Num(2)
           /\ Len(Field(outer, "data").xs) = 1
           /\ LET inner == Field(Field(outer, "data").xs[1], "devices")
              IN  /\ HasKey(inner, "_meta")
                  /\ Field(Field(inner, "_meta"), "totalCount") = Num(3)
                  /\ Len(Field(inner, "data").xs) = 1

(***************************************************************************)
(* Claims about the auto-approval policy                                   *)
(***************************************************************************)
Queried == polOut.op # "none"

C5_GlobExcludeWins ==
    (/\ polOut.op = "getToolDefinition"
     /\ \E i \in DOMAIN settings.tools.exclude :
            matchesPattern(polOut.name, settings.tools.exclude[i]))
        => (~polOut.approved /\ polOut.def.requiresApproval)

\* The first rule of a list of rules that applies gives the verdict.
RECURSIVE FirstMatch(_)
FirstMatch(rules) ==
    IF rules = <<>> THEN FALSE
    ELSE IF Head(rules).applies THEN Head(rules).approved
    ELSE FirstMatch(Tail(rules))

Rule(applies, approved) == [applies |-> applies, approved |-> approved]

HasPrefix(name) ==
    \E i \in DOMAIN readOnlyPrefixes : StartsWith(ToLowerCase(name), readOnlyPrefixes[i])
HasSuffix(name) ==
    \E i \in DOMAIN readOnlySuffixes : EndsWith(ToLowerCase(name), readOnlySuffixes[i])
HasInfix(name) ==
    \E i \in DOMAIN readOnlyInfixes : StrIncludes(ToLowerCase(name), readOnlyInfixes[i])

\* The rules of auto-approval in their order, the last one with the names
\* that the read-only heuristic recognizes.
Resolution(name, readOnlyName) ==
    FirstMatch(<< Rule(Includes(settings.tools.exclude, name), FALSE),
                  Rule(settings.tools.all, TRUE),
                  Rule(Includes(settings.tools.specific, name), TRUE),
                  Rule(\E i \in DOMAIN settings.tools.patterns :
                           matchesPattern(name, settings.tools.patterns[i]), TRUE),
                  Rule(settings.readOnlyByDefault /\ readOnlyName, TRUE) >>)

\* C14 as stated: with auto-approval enabled the answer is the first-match
\* resolution exclude, blanket flag, exact names, patterns, then (heuristic on)
\* a name with a read-verb prefix or a read-oriented suffix; else not approved.
C14_FirstMatchWins ==
    (Queried /\ settings.enabled)
        => polOut.approved =
             Resolution(polOut.name, HasPrefix(polOut.name) \/ HasSuffix(polOut.name))

\* C14 amended: the same resolution, where the heuristic also recognizes a name
\* that contains _get_, _list_, _statuses or _overview (prefix, suffix and
\* infix tested on the lower-cased name).
C14_FirstMatchWinsInfix ==
    (Queried /\ settings.enabled)
        => polOut.approved =
             Resolution(polOut.name, \/ HasPrefix(polOut.name)
                                     \/ HasSuffix(polOut.name)
                                     \/ HasInfix(polOut.name))

\* C14 witness: organization_licenses_overview, which no list names and no
\* pattern matches, is approved by the heuristic.
C14_Witness ==
    /\ Queried /\ settings.enabled /\ settings.readOnlyByDefault
    /\ ~settings.tools.all
    /\ settings.tools.patterns = <<PatReboo, PatDelete>>
    /\ settings.tools.specific = <<network_delete>>
    /\ polOut.name = organization_licenses_overview
    /\ polOut.approved

\* C15: with auto-approval enabled, the heuristic on and the blanket flag and
\* the three lists empty, no registered write operation is auto-approved and
\* the definition of each carries requiresApproval.
C15_WritesNeedApproval ==
    (/\ Queried /\ settings.enabled /\ settings.readOnlyByDefault
     /\ ~settings.tools.all
     /\ settings.tools.patterns = <<>> /\ settings.tools.specific = <<>>
     /\ settings.tools.exclude = <<>>
     /\ polOut.name \in WriteTools)
        => /\ ~polOut.approved
           /\ polOut.op = "getToolDefinition" => polOut.def.requiresApproval

\* C15 witness: the definition of device_management_interface_update under
\* such settings carries requiresApproval.
C15_Witness ==
    /\ polOut.op = "getToolDefinition"
    /\ settings.enabled /\ settings.readOnlyByDefault /\ ~settings.tools.all
    /\ settings.tools.patterns = <<>> /\ settings.tools.specific = <<>>
    /\ settings.tools.exclude = <<>>
    /\ polOut.name \in WriteTools /\ Len(polOut.name) = 34
    /\ polOut.def.requiresApproval

\* The pattern read as a glob: '*' is any run of characters, '?' is exactly
\* one character, every other character is itself.  True when the pattern
\* from position i on matches the name from position j on.
RECURSIVE GlobMatches(_, _, _, _)
GlobMatches(pattern, i, name, j) ==
    IF i > Len(pattern) THEN j > Len(name)
    ELSE IF pattern[i] = "*"
         THEN \/ GlobMatches(pattern, i + 1, name, j)
              \/ (j <= Len(name) /\ GlobMatches(pattern, i, name, j + 1))
    ELSE /\ j <= Len(name)
         /\ pattern[i] = "?" \/ pattern[i] = name[j]
         /\ GlobMatches(pattern, i + 1, name, j + 1)

\* C26: matchesPattern(name, pattern) is true exactly when the whole name
\* matches the pattern read as a glob, for every pattern of the settings
\* (the pattern list and the exclude list).
C26_GlobSemantics ==
    polOut.op # "none" =>
        /\ \A i \in DOMAIN settings.tools.patterns :
              matchesPattern(polOut.name, settings.tools.patterns[i])
                  = GlobMatches(settings.tools.patterns[i], 1, polOut.name, 1)
        /\ \A i \in DOMAIN settings.tools.exclude :
              matchesPattern(polOut.name, settings.tools.exclude[i])
                  = GlobMatches(settings.tools.exclude[i], 1, polOut.name, 1)

(***************************************************************************)
(* Claims about the composite aggregation                                  *)
(***************************************************************************)
SurvivingEvents(c) ==
    IF childResp[c].ok THEN EventsWithNetwork(childResp[c], Network(c)) ELSE <<>>

Occurrences(events, e) == Cardinality({ i \in DOMAIN events : events[i] = e })

\* C9: once the listing of children has succeeded the aggregate call does not
\* fail, whatever children fail, and its events before page-size truncation
\* are exactly the events of the children that succeeded.
C9_FailedChildSkipped ==
    /\ cmpPc = "failed" => cmpNext = 0
    /\ cmpPc = "done" =>
          /\ Len(cmpMerged) =
                SumSeq([i \in DOMAIN networks |-> Len(SurvivingEvents(networks[i].id))])
          /\ \A c \in DOMAIN childResp :
                \A i \in DOMAIN SurvivingEvents(c) :
                    Occurrences(cmpMerged, SurvivingEvents(c)[i]) = 1

\* C9 witness: 5 children, 2 fail, 3 return 1, 2 and 3 events: 6 events.
C9_Witness ==
    /\ cmpPc = "done"
    /\ childResp = FiveChildrenScenario
    /\ Len(cmpMerged) = 6
    /\ cmpParams.perPage = 0
    /\ Len(Field(cmpResult, "events").xs) = 6

\* C10: for fixed children and fixed child responses the composite result is
\* the same for every order in which the children are processed.
C10_OrderIndependent ==
    cmpPc = "done" =>
        \A order \in Orders(DOMAIN childResp) :
            CompositeReturn(CollectEvents(order, 1), cmpParams.perPage) = cmpResult

\* the surviving events of all children
AllSurviving == UNION { { SurvivingEvents(c)[i] : i \in DOMAIN SurvivingEvents(c) } :
                        c \in DOMAIN childResp }

\* C25: the composite result lists surviving events in non-increasing order
\* of occurredAt; with a page size it holds at most that many events, and no
\* surviving event left out is more recent than one that is listed; without a
\* page size it holds every surviving event.
C25_RecentFirstPage ==
    cmpPc = "done" =>
        LET listed == Field(cmpResult, "events").xs
            perPage == cmpParams.perPage
        IN  /\ \A i, j \in DOMAIN listed :
                  i < j => OccurredAt(listed[i]) >= OccurredAt(listed[j])
            /\ \A i \in DOMAIN listed :
                  /\ listed[i] \in AllSurviving
                  /\ Occurrences(listed, listed[i]) = 1
            /\ Len(listed) = IF perPage # 0 /\ perPage < Cardinality(AllSurviving)
                             THEN perPage ELSE Cardinality(AllSurviving)
            /\ \A e \in AllSurviving :
                  Occurrences(listed, e) = 0 =>
                      \A i \in DOMAIN listed : OccurredAt(e) <= OccurredAt(listed[i])
            /\ Field(cmpResult, "total") = Num(Len(listed))

\* C25 witness: of 6 surviving events of days 1..6 a page of 3 lists the
\* events of days 6, 5 and 4.
C25_Witness ==
    /\ cmpPc = "done"
    /\ childResp = FiveChildrenScenario
    /\ cmpParams.perPage = 3
    /\ LET listed == Field(cmpResult, "events").xs
       IN  /\ Len(listed) = 3
           /\ OccurredAt(listed[1]) = 6 * MsPerDay
           /\ OccurredAt(listed[3]) = 4 * MsPerDay

(***************************************************************************)
(* Claims about BaseTool.execute                                           *)
(***************************************************************************)
\* C3: once a call's parameters (after default merge, coercion and transform)
\* fail validation, the call ends failed with an error and no outbound HTTP
\* request has been or is ever issued for it, for standard and composite tools.
C3_NoRequestOnInvalid ==
    (exePc # "idle" /\ validateParams(exeTool, exeParams.transformed).threw)
        => /\ exeHttp = <<>>
           /\ exePc \in {"validating", "failed"}
           /\ exePc = "failed" => exeOutcome.class = "McpError"

\* C3 witness: the composite tool called with perPage "abc" has failed.
C3_Witness ==
    /\ exePc = "failed"
    /\ exeTool.method = "COMPOSITE"
    /\ exeParams.raw[K_perPage] = Str(<<"a", "b", "c">>)
    /\ exeParams.raw[K_organizationId] = Str(<<"N", "1">>)
    /\ exeParams.validation = "failed"
    /\ exeHttp = <<>>

\* The last entry of a default-parameter table, in declaration order, whose
\* pattern matches the name and which defines the key; 0 without any.
LastPattern(table, name, k) ==
    LET defining == { i \in DOMAIN table :
                        matchesPattern(name, table[i].k) /\ table[i].v[k] # Undefined }
    IN  IF defining = {} THEN 0
        ELSE CHOOSE i \in defining : \A j \in defining : j <= i

\* The precedence chain of C16 for one key.
Precedence(table, name, supplied, k) ==
    IF supplied[k] # Undefined THEN supplied[k]
    ELSE IF \E i \in DOMAIN table : table[i].k = name /\ table[i].v[k] # Undefined
    THEN table[CHOOSE i \in DOMAIN table : table[i].k = name].v[k]
    ELSE IF LastPattern(table, name, k) # 0
    THEN table[LastPattern(table, name, k)].v[k]
    ELSE Undefined

\* C16: the effective value of every parameter of a call is the caller's value
\* if the caller supplied the key, else the default of the entry keyed by the
\* tool's name, else the default of the last matching pattern that defines it.
C16_Precedence ==
    exePc # "idle" =>
        \A k \in Keys :
            exeParams.withDefaults[k] =
                Precedence(exeParams.defaults, exeTool.name, exeParams.raw, k)

\* C16 witness: network_clients_list called without perPage and timespan under
\* two matching patterns (perPage 25 / timespan 900, then perPage 30) and its
\* own entry (perPage 20) resolves perPage to 20 and timespan to 900.
C16_Witness ==
    /\ exePc # "idle"
    /\ exeTool.name = network_clients_list
    /\ exeParams.defaults = TWO_PATTERNS
    /\ exeParams.raw[K_perPage] = Undefined /\ exeParams.raw[K_timespan] = Undefined
    /\ exeParams.withDefaults[K_perPage] = Num(20)
    /\ exeParams.withDefaults[K_timespan] = Num(900)

\* The three failure classes, and the errors BaseTool.execute catches in each
FailureClasses == {"validation", "upstream", "transport"}

ThrownErrors(class) ==
    CASE class = "validation" ->
            { [class |-> "Error", path |-> K_perPage, message |-> "too_big"],
              [class |-> "ValidationError", field |-> K_networkId] }
      [] class = "upstream" -> { UpstreamError(st) : st \in UpstreamFailures \ {0} }
      [] OTHER -> { MerakiAPIError(0, Null) }

\* the class of the failure of the current call
FailureClass ==
    IF exeParams.validation = "failed" THEN "validation"
    ELSE IF exeOutcome.data.statusCode = 0 THEN "transport"
    ELSE "upstream"

\* C17: the kind (error code) of the error the call-tool handler delivers is
\* one that no failure of another class is delivered with, so the kind alone
\* tells the caller which of the three classes occurred.
C17_KindTellsClass ==
    exeDelivered.class = "McpError" =>
        \A other \in FailureClasses \ {FailureClass} :
            \A error \in ThrownErrors(other) :
                CallToolCatch(exeTool.name, handleError(error)).code # exeDelivered.code

\* C18: a call that failed with a non-success upstream status is answered by
\* the call-tool handler with an error whose data holds that status code.
C18_StatusInDetails ==
    (exeDelivered.class = "McpError" /\ FailureClass = "upstream") =>
        /\ exeDelivered.data # Undefined
        /\ exeDelivered.data.statusCode = exeOutcome.data.statusCode

\* the error BaseTool.execute threw, as it would be in a run that differs only in
\* the client's key: the key enters an error only through the request config
\* that an AxiosError keeps
HoldsConfig(error) ==
    /\ error.class = "McpError"
    /\ "details" \in DOMAIN error.data
    /\ "class" \in DOMAIN error.data.details
    /\ error.data.details.class = "AxiosError"

InRunWith(error, key) ==
    IF HoldsConfig(error)
    THEN [ error EXCEPT !.data.details.config.headers = getAuthHeaders(key) ]
    ELSE error

\* C27: the API key is in no log line and in no error the caller is answered
\* with: a run that differs only in the key writes the same log lines and
\* answers the caller with the same error, whether the call succeeded, failed
\* upstream or failed in transport.
C27_KeyNotObservable ==
    \A key \in ApiKeys :
        /\ ConsoleLog(key) = ConsoleLog(apiKey)
        /\ exeDelivered.class = "McpError" =>
               CallToolCatch(exeTool.name, InRunWith(exeOutcome, key)) = exeDelivered

\* a transport failure whose error holds the request headers was answered
C27_Witness ==
    /\ exeDelivered.class = "McpError"
    /\ HoldsConfig(exeOutcome)
    /\ exeOutcome.data.details.config.headers.Authorization = <<"Bearer", apiKey>>
    /\ Len(exeHttp) >= 1


\* the keys of the parameter map that get was called with for a request
TopLevelKeys(request) == DOMAIN request.params

\* a filter of the composite call is among the top-level keys of a child's
\* parameter map, with the given value
SentTopLevel(request, k, value) ==
    /\ k \in TopLevelKeys(request)
    /\ request.params[k] = value

\* C28: every child request of the composite aggregation has the page size
\* (the caller's, else 100) and the time window the caller gave as top-level
\* keys of the parameter map handed to the client's get.
C28_FiltersAreQueryParams ==
    (exeTool.method = "COMPOSITE") =>
        \A i \in 2..Len(exeHttp) :
            LET given == exeParams.validated
            IN  /\ SentTopLevel(exeHttp[i], K_perPage,
                                IF Falsy(given[K_perPage]) THEN Num(100)
                                ELSE given[K_perPage])
                /\ ~Falsy(given[K_t0]) => SentTopLevel(exeHttp[i], K_t0, given[K_t0])
                /\ ~Falsy(given[K_timespan]) =>
                       SentTopLevel(exeHttp[i], K_timespan, given[K_timespan])

\* the tools whose transform hook injects a default time window
InjectingTools == {device_clients_list, network_traffic_get}

\* the parameter that names the tool's resource is a string, as its schema asks
ResourceGiven(tool, params) ==
    \A i \in DOMAIN tool.requiredParams : params[tool.requiredParams[i]].t = "str"

\* C19: the steps of an execution occur in the order default merge, coercion,
\* transform, validation, dispatch, bounding: each step works on the result
\* of the step before it, no request exists before validation has passed, and
\* a result is returned only after a request and after bounding.  A call of
\* device_clients_list or network_traffic_get that reaches the transform hook
\* with neither timespan nor t0 passes validation and is dispatched with the
\* injected timespan.
C19_PipelineOrder ==
    exePc # "idle" =>
        /\ exeParams.withDefaults =
               Assign(getDefaultParams(exeParams.defaults, exeTool.name), exeParams.raw)
        /\ exeParams.coerced =
               coerceParameterTypes(exeTool.inputSchema, exeParams.withDefaults)
        /\ exeParams.transformed = transformParams(exeTool, exeParams.coerced)
        /\ exePc = "validating" => (exeParams.validation = "pending" /\ exeHttp = <<>>)
        /\ exeParams.validation = "passed" =>
               exeParams.validated = validateParams(exeTool, exeParams.transformed).data
        /\ exeParams.validation = "failed" => exeHttp = <<>>
        /\ exeHttp # <<>> =>
               /\ exeParams.validation = "passed"
               /\ exeHttp[1] = IF exeTool.method = "COMPOSITE"
                               THEN ListingRequest(exeParams.validated)
                               ELSE StandardRequest(exeTool, exeParams.validated)
        /\ exePc = "returned" =>
               /\ exeHttp # <<>>
               /\ exeTool.method # "COMPOSITE" =>
                      \E data \in ResponsePool :
                          exeOutcome.value =
                              applyResponseOptimization(exeTool.name, data, DefaultLimits)
        /\ ( /\ exeTool.name \in InjectingTools
             /\ ResourceGiven(exeTool, exeParams.raw)
             /\ exeParams.withDefaults[K_timespan] = Undefined
             /\ exeParams.withDefaults[K_t0] = Undefined
             /\ exePc # "validating" ) =>
               /\ exeParams.validation = "passed"
               /\ exeParams.validated[K_timespan] = Num(86400)
               /\ Len(exeHttp) = 1
               /\ exeHttp[1].params[K_timespan] = Num(86400)

\* C19 witness: network_traffic_get called with a network id only has been
\* dispatched, its request carrying the injected timespan of 86400 seconds.
C19_Witness ==
    /\ exePc = "http"
    /\ exeTool.name = network_traffic_get
    /\ exeParams.raw[K_networkId] = Str(<<"N", "1">>)
    /\ exeParams.raw[K_timespan] = Undefined /\ exeParams.raw[K_t0] = Undefined
    /\ exeParams.coerced[K_timespan] = Undefined
    /\ exeParams.validation = "passed"
    /\ exeHttp[1].params[K_timespan] = Num(86400)

\* the parameters that config.endpoint(params) writes into the path
PathKeys(tool) == IF tool.name = device_clients_list THEN {K_serial} ELSE {K_networkId}

\* C20: in every non-composite call the parameters substituted into the
\* endpoint path are not among the parameters sent as query or body, and the
\* two together are exactly the validated parameters.
C20_PathParamsNotSent ==
    (exeHttp # <<>> /\ exeTool.method # "COMPOSITE") =>
        LET sentKeys == { k \in Keys : exeHttp[1].params[k] # Undefined }
        IN  /\ PathKeys(exeTool) \cap sentKeys = {}
            /\ PathKeys(exeTool) \cup sentKeys =
                   { k \in Keys : exeParams.validated[k] # Undefined }
            /\ \A k \in sentKeys : exeHttp[1].params[k] = exeParams.validated[k]

(***************************************************************************)
(* Claims about MerakiHttpClient                                           *)
(***************************************************************************)
\* C1: in every window of one second (TicksPerSecond consecutive ticks) at
\* most RATE_LIMIT_PER_SECOND requests are sent, retries included.
C1_RollingWindow == SumSeq(sent) <= RATE_LIMIT_PER_SECOND

\* C2 as stated: a call whose every attempt was answered 429 fails after
\* exactly 3 attempts with status 429.
C2_ThreeAttempts ==
    (settled.state = "failed" /\ settled.only429)
        => settled.attempts = 3 /\ settled.status = 429

\* C2 amended: a call whose every attempt is answered 429 is retried
\* MAX_RETRIES times, 4 attempts in all: it fails with status 429 on the
\* answer to the 4th attempt, and no call is ever sent or queued for a 5th.
C2_FourAttempts ==
    /\ (settled.state = "failed" /\ settled.only429)
          => settled.attempts = MAX_RETRIES + 1 /\ settled.status = 429
    /\ \A call \in BagToSet(live) :
          /\ call.attempts <= MAX_RETRIES + 1
          /\ call.state = "backoff" => call.attempts <= MAX_RETRIES
    /\ \A i \in DOMAIN axQueue : axQueue[i].attempts <= MAX_RETRIES

\* C2 witness: a call has failed after 4 attempts, each answered 429.
C2_Witness ==
    /\ settled.state = "failed" /\ settled.only429
    /\ settled.attempts = MAX_RETRIES + 1 /\ settled.status = 429

\* C11 as stated: a call fails on a 5xx answer only once its attempts are
\* exhausted (3 attempts by the spec's count), having been retried like a 429.
C11_ServerErrorRetried ==
    (settled.state = "failed" /\ settled.status >= 500) => settled.attempts >= 3

\* C11 amended: a 5xx answer is terminal.  No backoff wait is ever started by
\* a 5xx answer, and the call it answers fails at once with that status, with
\* as many attempts as it had made.
C11_ServerErrorTerminal ==
    /\ delayed.status < 500
    /\ \A call \in BagToSet(live) : call.state = "backoff" => limited > 0
    /\ (settled.state # "none" /\ settled.status >= 500)
          => settled.state = "failed" /\ settled.attempts <= MAX_RETRIES + 1

\* C11 witness: a call has failed on a 500 answer to its first attempt.
C11_Witness ==
    settled.state = "failed" /\ settled.status = 500 /\ settled.attempts = 1

\* The wait that C12 requires for a retry-after hint, in milliseconds: the
\* hint's seconds when it is a number, the initial backoff of 1000 ms when it
\* is absent or no number.
RequiredWait(hint) ==
    IF hint # <<>> /\ \A i \in DOMAIN hint : IsDigit(hint[i])
    THEN DecimalValue(hint) * 1000
    ELSE 1000

\* C12: the wait started by a 429 answer lasts at least the retry-after hint
\* (or 1000 ms without a numeric hint); a call in backoff does not outlive its
\* wait unsent, and a retry waits for a release only after its wait is over, so
\* that no retry is sent before the wait has elapsed.
C12_BackoffGap ==
    /\ delayed.status # 0 =>
          delayed.until - delayed.from >= MsToTicks(RequiredWait(delayed.hint))
    /\ \A call \in BagToSet(live) : call.state = "backoff" => call.wake >= now
    /\ \A i \in DOMAIN axQueue : axQueue[i].wake <= now

\* C12 witness: the retry of a call has been sent and answered 429 with a hint
\* of 1 second; the call waits a second again.
C12_Witness ==
    /\ delayed.status = 429 /\ delayed.hint = <<"1">>
    /\ delayed.until = delayed.from + TicksPerSecond
    /\ \E call \in BagToSet(live) :
          call.state = "backoff" /\ call.attempts = 2 /\ call.wake = delayed.until

\* C13: a 4xx answer other than 429 is terminal.  No backoff wait is ever
\* started by such an answer, and the call it answers fails with that status.
C13_ClientErrorTerminal ==
    /\ ~(delayed.status >= 400 /\ delayed.status < 500 /\ delayed.status # 429)
    /\ (settled.state # "none" /\ settled.status >= 400 /\ settled.status < 500)
          => settled.state = "failed"

\* C13 witness: a call answered 429 and then 404 has failed with status 404
\* after its second attempt.
C13_Witness ==
    settled.state = "failed" /\ settled.status = 404 /\ settled.attempts = 2

\* the attempts of every call are counted by its retryCount, which never
\* exceeds MAX_RETRIES; a call waits in backoff only if a retry is left
AttemptsBounded ==
    /\ \A call \in BagToSet(live) :
          /\ call.attempts = call.retryCount + 1
          /\ call.retryCount <= MAX_RETRIES
          /\ call.state = "backoff" => call.retryCount < MAX_RETRIES
    /\ \A i \in DOMAIN axQueue :
          /\ axQueue[i].attempts = axQueue[i].retryCount
          /\ axQueue[i].retryCount <= MAX_RETRIES
    /\ settled.state # "none" =>
          /\ settled.state \in {"ok", "failed"}
          /\ settled.attempts \in 1..(MAX_RETRIES + 1)

\* no attempt is outstanding, and whatever is still admitted waits for a
\* timer that is due after the clock's last tick
Quiet ==
    /\ Flights = {}
    /\ \A call \in BagToSet(live) : call.wake > MaxTime
    /\ axQueue # <<>> => timeslotEnd > MaxTime
    /\ queued > 0 => intervalEnd > MaxTime

\* C29: every admitted call terminates: no call is ever sent more than
\* MAX_RETRIES + 1 times, every call that settles has returned or thrown after
\* 1..MAX_RETRIES + 1 attempts, and with every attempt answered the client
\* comes to rest with no attempt outstanding.
C29_EveryCallTerminates == []AttemptsBounded /\ <>[]Quiet

\* C29 witness: a call answered 429 MAX_RETRIES times has returned on its last
\* attempt and nothing is left admitted or queued.
C29_Witness ==
    /\ settled.state = "ok" /\ settled.attempts = MAX_RETRIES + 1
    /\ live = EmptyBag /\ axQueue = <<>> /\ queued = 0

\* the calls that were admitted and have neither returned nor thrown: waiting
\* at the rate limiter, in flight, or in a backoff wait
Unfinished == Len(axQueue) + BagCardinality(live)

\* the admitted calls that are in a backoff wait
Backoffs ==
    BagCardinality([ call \in { c \in BagToSet(live) : c.state = "backoff" } |->
                        CopiesIn(call, live) ])

\* the step admits no job: the queue shrinks by nothing, and grows by the call
\* the step submits if it submits one
NothingAdmitted == queued' - queued = submitted' - submitted

\* C30: a call holds its admission slot until it returns or throws, its
\* backoff waits included: at most 5 calls are admitted and unfinished, no job
\* is admitted in a step taken while 5 admitted calls wait in backoff, and the
\* step that ends a backoff wait hands the retry to the rate limiter without
\* touching the admission queue or its interval count.
C30_SlotKeptThroughBackoff ==
    /\ [](Unfinished <= RATE_LIMIT_PER_SECOND)
    /\ [][ /\ Backoffs = RATE_LIMIT_PER_SECOND => NothingAdmitted
           /\ Backoffs' < Backoffs =>
                  /\ NothingAdmitted
                  /\ intervalCount' = intervalCount
                  /\ Len(axQueue') + BagCardinality(live') = Unfinished ]_vars

\* C30 witness: 5 admitted calls wait in backoff, a sixth is queued, and the
\* interval would allow a start.
C30_Witness ==
    /\ Backoffs = RATE_LIMIT_PER_SECOND
    /\ queued >= 1
    /\ intervalCount < RATE_LIMIT_PER_SECOND

(***************************************************************************)
(* Specifications                                                          *)
(***************************************************************************)
DEFAULT_SETTINGS ==
    [ enabled |-> FALSE,
      tools |-> [ all |-> FALSE, patterns |-> <<>>, specific |-> <<>>, exclude |-> <<>> ],
      readOnlyByDefault |-> TRUE ]

PolHeld == settings = DEFAULT_SETTINGS /\ polOut = NoQuery
CmpHeld == /\ cmpPc = "idle" /\ networks = <<>> /\ cmpParams = [perPage |-> 0]
           /\ childResp = <<>> /\ cmpNext = 0 /\ allSecurityEvents = <<>>
           /\ cmpMerged = <<>> /\ cmpResult = Null
ExeHeld == ExeIdle /\ apiKey = KEY_A
DspHeld == DspInit

InitPolicy == PolInit /\ BndInit /\ CmpHeld /\ ExeHeld /\ DspHeld
InitBound == BndInit /\ PolHeld /\ CmpHeld /\ ExeHeld /\ DspHeld
InitComposite == CmpInit /\ PolHeld /\ BndInit /\ ExeHeld /\ DspHeld
InitExec == ExeInit /\ PolHeld /\ BndInit /\ CmpHeld /\ DspHeld
InitDispatch == DspInit /\ PolHeld /\ BndInit /\ CmpHeld /\ ExeHeld

SpecPolicy == InitPolicy /\ [][PolNext]_vars

SpecBound == InitBound /\ [][BndNext]_vars

SpecComposite == InitComposite /\ [][CmpNext]_vars

SpecExec == InitExec /\ [][ExeNext]_vars
SpecDispatch == InitDispatch /\ [][DspNext]_vars

SpecDispatchBurst == InitDispatch /\ [][BurstNext]_vars

\* Callers need not submit; a timer that is due runs, and an attempt that was
\* sent is answered or fails within its timeout.
SpecDispatchFair == InitDispatch /\ [][FairNext]_vars /\ WF_vars(Served)

====
